---- MODULE Spec2Model ----
(***************************************************************************)
(* VaultCraft: backup and restore of the vault (services/backup.rs).       *)
(*                                                                         *)
(* The file system is modelled relative to diretorio_app.  A path is a     *)
(* sequence of components; a path that leaves diretorio_app starts with    *)
(* the component "/".  Plain files hold one small integer standing for     *)
(* their bytes; 0 stands for a file cut short by a failed write.           *)
(***************************************************************************)
EXTENDS Integers, Sequences, FiniteSets, TLC

\* ---------------------------------------------------------------- bounds
MaxByte == 2        \* file contents are 1..MaxByte
MaxEntradas == 2    \* attachment entries of the archive handed to restore
MaxAnexos == 2      \* rows of the table anexos of a vault that is archived
MaxChamadas == 2    \* calls of restaurar_backup in a row

VARIABLES
    zip,          \* the archive handed to restaurar_backup (arquivo)
    arquivos,     \* plain files on disk: path -> bytes
    zips,         \* archives in backups_automaticos: file name -> archive
    db,           \* what the open connection answers: [n_itens, caminhos]
    relogio,      \* Utc::now(), in seconds
    pc,           \* position in restaurar_backup
    manifesto,    \* restaurar_backup: the parsed manifest
    conteudo_banco, \* restaurar_backup: bytes read from banco.sqlite
    i,            \* restaurar_backup: index of the extraction loop
    pcb,          \* position in criar_backup
    zw,           \* criar_backup: the ZipWriter and the locals around it
    j,            \* criar_backup: index in caminhos_anexos
    resultado,    \* result of restaurar_backup: "nenhum", "ok", "erro"
    motivo,       \* the context of the error returned
    res_backup,   \* result of the nested criar_backup
    inicial,      \* the files on disk when restaurar_backup was called
    avisos,       \* attachment paths whose digest mismatch was logged
    etapas,       \* the stages restaurar_backup went through, in order
    pasta_id,     \* exportar_pacote_pasta: the folder asked for
    pacotes,      \* archives in the directory destino of an export
    pce,          \* position in exportar_pacote_pasta
    ze,           \* exportar_pacote_pasta: the ZipWriter and the locals
    pci,          \* position in importar_pacote
    zi,           \* importar_pacote: the parsed dados.json and the locals
    trava,        \* EstadoApp.banco: the thread that holds the mutex, or "livre"
    fios,         \* the threads that run commands: [comando, fase, passo]
    origem,       \* the vault an archive was made of: its files, its database
    chamadas      \* how many times restaurar_backup has been called

\* exportar_pacote_pasta: its argument, its destination and its locals
varsExportar == <<pasta_id, pacotes, pce, ze>>

\* importar_pacote: its position and its locals; its archive is zip
varsImportar == <<pci, zi>>

\* the mutex of EstadoApp and the threads of the commands
varsComandos == <<trava, fios>>

\* what backup and restore never touch
varsAlheias == <<varsExportar, varsImportar, varsComandos, origem, chamadas>>

vars == <<zip, arquivos, zips, db, relogio, pc, manifesto,
          conteudo_banco, i, pcb, zw, j, resultado, motivo, res_backup,
          inicial, avisos, etapas, varsAlheias>>

\* ------------------------------------------------------------ constants
\* migrations.rs: MIGRACOES, the target versions of the known migrations
MIGRACOES == <<1, 2>>

\* migrations.rs: versao_mais_recente(), the last version of MIGRACOES or 0
versao_mais_recente ==
    IF Len(MIGRACOES) = 0 THEN 0 ELSE MIGRACOES[Len(MIGRACOES)]

\* ---------------------------------------------------------------- paths
CaminhoBanco == <<"vaultcraft.db">>            \* diretorio_app.join("vaultcraft.db")
DirBackupsAuto == <<"backups_automaticos">>    \* diretorio_app.join("backups_automaticos")

\* armazenamento.rs: diretorio_app.join("storage").join("anexos")
obter_diretorio_armazenamento == <<"storage", "anexos">>

\* What the operating system makes of base/rel: ".." leaves a directory,
\* and leaving diretorio_app itself leads outside, written <<"/", ...>>.
RECURSIVE Normalizar(_, _)
Normalizar(acc, resto) ==
    IF resto = <<>> THEN acc
    ELSE IF Head(resto) = ".."
         THEN IF acc = <<>> \/ acc = <<"/">>
              THEN Normalizar(<<"/">>, Tail(resto))
              ELSE Normalizar(SubSeq(acc, 1, Len(acc) - 1), Tail(resto))
         ELSE Normalizar(Append(acc, Head(resto)), Tail(resto))

\* Path::join: an absolute rel replaces base, anything else is appended
Juntar(base, rel) ==
    IF rel # <<>> /\ Head(rel) = "/" THEN Normalizar(<<"/">>, Tail(rel))
    ELSE Normalizar(base, rel)

\* p lies inside the directory dir
Dentro(dir, p) == Len(p) > Len(dir) /\ SubSeq(p, 1, Len(dir)) = dir

\* the files of f under the live attachments directory
AnexosVivos(f) == {p \in DOMAIN f : Dentro(obter_diretorio_armazenamento, p)}

\* fs::write that succeeded: p holds v afterwards
Escrever(f, p, v) == [q \in DOMAIN f \cup {p} |-> IF q = p THEN v ELSE f[q]]

\* the files of f without those of S
Remover(f, S) == [q \in DOMAIN f \ S |-> f[q]]

\* ------------------------------------------------------------- digests
\* calcular_hash_bytes: SHA-256 in hex, injective on the contents modelled
calcular_hash_bytes(dados) == <<"sha256", dados>>

\* String::new(), the hash_banco of a folder package
HashVazio == <<>>

\* ------------------------------------------------------------- archives
\* An archive is [finalizado, entradas, manifesto]: entradas are the ZIP
\* entries in index order, each [nome, dados, dir] (dir: the name ends in
\* "/"); manifesto is what manifesto.json parses to, and matters only when
\* an entry of that name exists.  An archive that was never finished has
\* no central directory and cannot be opened.
NomeBanco == <<"banco.sqlite">>
NomeManifesto == <<"manifesto.json">>

Entrada(nome, dados, dir) == [nome |-> nome, dados |-> dados, dir |-> dir]

ManifestoInvalido ==
    [valido |-> FALSE, versao_schema |-> 0, total_itens |-> 0,
     total_anexos |-> 0, hash_banco |-> HashVazio, hashes_anexos |-> <<>>]

ArquivoIncompleto ==
    [finalizado |-> FALSE, entradas |-> <<>>, manifesto |-> ManifestoInvalido]

\* the indices of the entries of z named nome
Indices(z, nome) == {k \in 1..Len(z.entradas) : z.entradas[k].nome = nome}

\* zip.by_name(nome) finds an entry
TemEntrada(z, nome) == Indices(z, nome) # {}

\* zip.by_name(nome): the entry of that name
PorNome(z, nome) == z.entradas[CHOOSE k \in Indices(z, nome) : TRUE]

\* nome.starts_with("anexos/")
ComecaComAnexos(e) ==
    Head(e.nome) = "anexos" /\ (Len(e.nome) >= 2 \/ e.dir)

\* nome.strip_prefix("anexos/")
CaminhoRelativo(e) == Tail(e.nome)

\* the entries the extraction loop of restaurar_backup writes to disk
EhAnexo(e) == ComecaComAnexos(e) /\ ~e.dir

\* ------------------------------------------------- inputs of the model
Bytes == 1..MaxByte

\* the names an archive may give its entries under anexos/, in the order
\* the archive holds them: a directory entry, two ordinary files and one
\* that climbs out of storage/anexos onto the live database
NomesAnexo ==
    <<<<"anexos", "u1">>, <<"anexos", "u1", "f">>, <<"anexos", "u2", "f">>,
      <<"anexos", "..", "..", "vaultcraft.db">>>>

\* a path a manifest may list although the archive has no entry for it
RelExtra == <<"u9", "f">>

\* the entries an archive may hold under the k-th name
EntradasDe(k) ==
    IF Len(NomesAnexo[k]) = 2
    THEN {Entrada(NomesAnexo[k], 0, TRUE)}
    ELSE {Entrada(NomesAnexo[k], b, FALSE) : b \in Bytes}

\* sequences of at most n attachment entries, named from the k-th name on
RECURSIVE SeqsAnexos(_, _)
SeqsAnexos(k, n) ==
    IF k > Len(NomesAnexo) \/ n = 0 THEN {<<>>}
    ELSE SeqsAnexos(k + 1, n) \cup
         {<<e>> \o s : e \in EntradasDe(k), s \in SeqsAnexos(k + 1, n - 1)}

\* the digests criar_backup would record for the attachment entries es
HashesCorretos(es) ==
    LET ks == {k \in 1..Len(es) : EhAnexo(es[k])}
    IN [r \in {CaminhoRelativo(es[k]) : k \in ks} |->
            calcular_hash_bytes(
                es[CHOOSE k \in ks : CaminhoRelativo(es[k]) = r].dados)]

\* the maps hashes_anexos a manifest may carry for the entries es: none,
\* the right ones, the right ones with one digest of other bytes, and the
\* right ones plus a path the archive does not hold
MapasHashes(es) ==
    LET certo == HashesCorretos(es)
    IN {<<>>, certo,
        [r \in DOMAIN certo \cup {RelExtra} |->
            IF r = RelExtra THEN calcular_hash_bytes(1) ELSE certo[r]]}
       \cup {[r \in DOMAIN certo |->
                IF r = q THEN calcular_hash_bytes(0) ELSE certo[r]]
             : q \in DOMAIN certo}

Manifestos(es) ==
    {ManifestoInvalido} \cup
    {[valido |-> TRUE, versao_schema |-> v, total_itens |-> 0,
      total_anexos |-> 0, hash_banco |-> h, hashes_anexos |-> m]
        : v \in {versao_mais_recente, versao_mais_recente + 1},
          h \in {HashVazio} \cup {calcular_hash_bytes(b) : b \in Bytes},
          m \in MapasHashes(es)}

\* the archives restaurar_backup is handed
ArquivosZip ==
    LET comBanco == {<<>>} \cup {<<Entrada(NomeBanco, b, FALSE)>> : b \in Bytes}
        anexos == SeqsAnexos(1, MaxEntradas)
    IN {ArquivoIncompleto} \cup
       {[finalizado |-> TRUE, entradas |-> b \o es, manifesto |-> ManifestoInvalido]
            : b \in comBanco, es \in anexos} \cup
       UNION {{[finalizado |-> TRUE,
                entradas |-> b \o es \o <<Entrada(NomeManifesto, 0, FALSE)>>,
                manifesto |-> m] : b \in comBanco, m \in Manifestos(es)}
              : es \in anexos}

\* the vault restaurar_backup is called on: a database file, two attachment
\* files, and a database that lists them and one that is gone from disk
ArquivosIniciais ==
    LET a1 == obter_diretorio_armazenamento \o <<"u1", "f">>
        a3 == obter_diretorio_armazenamento \o <<"u3", "f">>
    IN [p \in {CaminhoBanco, a1, a3} |->
            IF p = CaminhoBanco THEN 1 ELSE IF p = a1 THEN 1 ELSE 2]

\* a row of the table pastas; pasta_pai_id "None" is no parent, nome is a
\* sequence of characters
Pasta(id, pai, nome) == [id |-> id, pasta_pai_id |-> pai, nome |-> nome]

\* a row of the table itens with item.anexos as listar_anexos_por_item
\* loads them: the caminho_interno of each attachment of the item
Item(id, pasta, anexos) == [id |-> id, pasta_id |-> pasta, anexos |-> anexos]

PastaDocs == Pasta("p1", "None", <<"a", " ", "b">>)
PastaFotos == Pasta("p2", "p1", <<"a", "_", "b">>)

\* the database: COUNT(*) of itens, the caminho_interno of every row of
\* anexos, the rows of pastas and the rows of itens
BancoInicial ==
    [n_itens |-> 1,
     caminhos |-> <<<<"u1", "f">>, <<"u3", "f">>, <<"u4", "f">>>>,
     pastas |-> {PastaDocs},
     itens |-> <<Item("i1", "p1",
                      <<<<"u1", "f">>, <<"u3", "f">>, <<"u4", "f">>>>)>>]

ZwParado ==
    [nome |-> "", entradas |-> <<>>, hash_banco |-> HashVazio, hashes |-> <<>>,
     manifesto |-> ManifestoInvalido]

\* exportar_pacote_pasta is not running: no writer, no locals
ZeParado ==
    [nome |-> <<>>, pasta |-> Pasta("None", "None", <<>>), entradas |-> <<>>,
     hashes |-> <<>>, itens |-> <<>>, fila |-> <<>>, a |-> 1,
     manifesto |-> ManifestoInvalido]

ExportarParado ==
    /\ pasta_id = "None"
    /\ pacotes = <<>>
    /\ pce = "parado"
    /\ ze = ZeParado

\* importar_pacote is not running: nothing parsed, no id drawn, no error
ZiParado ==
    [dados |-> [valido |-> FALSE, pasta |-> Pasta("None", "None", <<>>),
                itens |-> <<>>],
     pasta |-> "None", item |-> "None", k |-> 1, a |-> 1, u |-> 1, erro |-> ""]

ImportarParado ==
    /\ pci = "parado"
    /\ zi = ZiParado

\* the threads on which the frontend's invocations run
Fios == {"t1", "t2"}

\* no command has been invoked: the mutex is free
ComandosParados ==
    /\ trava = "livre"
    /\ fios = [t \in Fios |-> [comando |-> "nenhum", fase |-> "fora", passo |-> 0]]

Init ==
    /\ zip \in ArquivosZip
    /\ arquivos = ArquivosIniciais
    /\ zips = <<>>
    /\ db = BancoInicial
    /\ relogio = 0
    /\ pc = "inicio"
    /\ manifesto = ManifestoInvalido
    /\ conteudo_banco = 0
    /\ i = 1
    /\ pcb = "parado"
    /\ zw = ZwParado
    /\ j = 1
    /\ resultado = "nenhum"
    /\ motivo = ""
    /\ res_backup = "nenhum"
    /\ inicial = ArquivosIniciais
    /\ avisos = {}
    /\ etapas = <<"Idle">>
    /\ ExportarParado
    /\ ImportarParado
    /\ ComandosParados
    /\ origem = [arquivos |-> arquivos, db |-> db]
    /\ chamadas = 1

\* ------------------------------------------------------- criar_backup
\* format!("vaultcraft_backup_{}.vaultbackup", agora): one name per second
NomesBackup ==
    <<"vaultcraft_backup_t0.vaultbackup", "vaultcraft_backup_t1.vaultbackup",
      "vaultcraft_backup_t2.vaultbackup">>

NomeBackup(t) == NomesBackup[t + 1]

varsRestaurar ==
    <<zip, pc, manifesto, conteudo_banco, i, resultado, motivo, res_backup,
      inicial, avisos, etapas>>

\* criar_backup returns Err: the writer is dropped without finish()
BackupFalha ==
    /\ pcb' = "b_erro"
    /\ zw' = ZwParado
    /\ j' = 1

\* fs::create_dir_all(dir_pai) of the destination
B_CriarDestino ==
    /\ pcb = "b_inicio"
    /\ \/ BackupFalha
       \/ /\ pcb' = "b_criar"
          /\ zw' = [ZwParado EXCEPT !.nome = NomeBackup(relogio)]
          /\ j' = 1
    /\ UNCHANGED <<arquivos, zips, db, relogio, varsRestaurar>>
    /\ UNCHANGED varsAlheias

\* B_CriarArquivo with the archive created in the attachments directory
M_CriarArquivoEntreAnexos ==
    /\ pcb = "b_criar"
    /\ \/ BackupFalha /\ UNCHANGED <<arquivos, zips>>
       \/ /\ arquivos' = Escrever(arquivos,
                              obter_diretorio_armazenamento \o <<zw.nome>>, 0)
          /\ zips' = Escrever(zips, zw.nome, ArquivoIncompleto)
          /\ pcb' = "b_banco"
          /\ UNCHANGED <<zw, j>>
    /\ UNCHANGED <<db, relogio, varsRestaurar>>
    /\ UNCHANGED varsAlheias

\* fs::File::create(&caminho_backup): the file exists, empty, from here on
B_CriarArquivo ==
    /\ pcb = "b_criar"
    /\ \/ BackupFalha /\ UNCHANGED zips
       \/ /\ zips' = Escrever(zips, zw.nome, ArquivoIncompleto)
          /\ pcb' = "b_banco"
          /\ UNCHANGED <<zw, j>>
    /\ UNCHANGED <<arquivos, db, relogio, varsRestaurar>>
    /\ UNCHANGED varsAlheias

\* B_Banco with hash_banco left empty, as in a folder package
M_BancoSemHash ==
    /\ pcb = "b_banco"
    /\ \/ BackupFalha
       \/ /\ CaminhoBanco \in DOMAIN arquivos
          /\ zw' = [zw EXCEPT
                      !.hash_banco = HashVazio,
                      !.entradas = Append(@, Entrada(NomeBanco,
                                                     arquivos[CaminhoBanco], FALSE))]
          /\ pcb' = "b_listar"
          /\ UNCHANGED j
    /\ UNCHANGED <<arquivos, zips, db, relogio, varsRestaurar>>
    /\ UNCHANGED varsAlheias

\* B_Banco with manifesto.json written right after banco.sqlite
M_BancoEManifesto ==
    /\ pcb = "b_banco"
    /\ \/ BackupFalha
       \/ /\ CaminhoBanco \in DOMAIN arquivos
          /\ zw' = [zw EXCEPT
                      !.hash_banco = calcular_hash_bytes(arquivos[CaminhoBanco]),
                      !.entradas = @ \o
                          <<Entrada(NomeBanco, arquivos[CaminhoBanco], FALSE),
                            Entrada(NomeManifesto, 0, FALSE)>>]
          /\ pcb' = "b_listar"
          /\ UNCHANGED j
    /\ UNCHANGED <<arquivos, zips, db, relogio, varsRestaurar>>
    /\ UNCHANGED varsAlheias

\* fs::read(vaultcraft.db), its digest, and the entry banco.sqlite
B_Banco ==
    /\ pcb = "b_banco"
    /\ \/ BackupFalha
       \/ /\ CaminhoBanco \in DOMAIN arquivos
          /\ zw' = [zw EXCEPT
                      !.hash_banco = calcular_hash_bytes(arquivos[CaminhoBanco]),
                      !.entradas = Append(@, Entrada(NomeBanco,
                                                     arquivos[CaminhoBanco], FALSE))]
          /\ pcb' = "b_listar"
          /\ UNCHANGED j
    /\ UNCHANGED <<arquivos, zips, db, relogio, varsRestaurar>>
    /\ UNCHANGED varsAlheias

\* queries::listar_caminhos_anexos(conexao)
B_Listar ==
    /\ pcb = "b_listar"
    /\ \/ BackupFalha
       \/ /\ pcb' = "b_anexo"
          /\ j' = 1
          /\ UNCHANGED zw
    /\ UNCHANGED <<arquivos, zips, db, relogio, varsRestaurar>>
    /\ UNCHANGED varsAlheias

\* B_Anexo without the test caminho_completo.exists(): fs::read fails on a
\* file that is gone
M_AnexoSemExists ==
    /\ pcb = "b_anexo"
    /\ j <= Len(db.caminhos)
    /\ LET caminho_interno == db.caminhos[j]
           caminho_completo == Juntar(obter_diretorio_armazenamento, caminho_interno)
       IN \/ BackupFalha
          \/ /\ caminho_completo \in DOMAIN arquivos
             /\ zw' = [zw EXCEPT
                         !.hashes = Escrever(@, caminho_interno,
                             calcular_hash_bytes(arquivos[caminho_completo])),
                         !.entradas = Append(@,
                             Entrada(<<"anexos">> \o caminho_interno,
                                     arquivos[caminho_completo], FALSE))]
             /\ j' = j + 1
             /\ UNCHANGED pcb
    /\ UNCHANGED <<arquivos, zips, db, relogio, varsRestaurar>>
    /\ UNCHANGED varsAlheias

\* one turn of the loop over caminhos_anexos
B_Anexo ==
    /\ pcb = "b_anexo"
    /\ j <= Len(db.caminhos)
    /\ LET caminho_interno == db.caminhos[j]
           caminho_completo == Juntar(obter_diretorio_armazenamento, caminho_interno)
       IN IF caminho_completo \in DOMAIN arquivos
          THEN \/ BackupFalha
               \/ /\ zw' = [zw EXCEPT
                              !.hashes = Escrever(@, caminho_interno,
                                  calcular_hash_bytes(arquivos[caminho_completo])),
                              !.entradas = Append(@,
                                  Entrada(<<"anexos">> \o caminho_interno,
                                          arquivos[caminho_completo], FALSE))]
                  /\ j' = j + 1
                  /\ UNCHANGED pcb
          ELSE /\ j' = j + 1
               /\ UNCHANGED <<zw, pcb>>
    /\ UNCHANGED <<arquivos, zips, db, relogio, varsRestaurar>>
    /\ UNCHANGED varsAlheias

\* queries::contar_itens and contar_anexos, and the manifest built from them
B_Contar ==
    /\ pcb = "b_anexo"
    /\ j > Len(db.caminhos)
    /\ \/ BackupFalha
       \/ /\ zw' = [zw EXCEPT !.manifesto =
                      [valido |-> TRUE,
                       versao_schema |-> versao_mais_recente,
                       total_itens |-> db.n_itens,
                       total_anexos |-> Len(db.caminhos),
                       hash_banco |-> zw.hash_banco,
                       hashes_anexos |-> zw.hashes]]
          /\ pcb' = "b_manifesto"
          /\ UNCHANGED j
    /\ UNCHANGED <<arquivos, zips, db, relogio, varsRestaurar>>
    /\ UNCHANGED varsAlheias

\* the entry manifesto.json
B_Manifesto ==
    /\ pcb = "b_manifesto"
    /\ \/ BackupFalha
       \/ /\ zw' = [zw EXCEPT
                      !.entradas = Append(@, Entrada(NomeManifesto, 0, FALSE))]
          /\ pcb' = "b_finish"
          /\ UNCHANGED j
    /\ UNCHANGED <<arquivos, zips, db, relogio, varsRestaurar>>
    /\ UNCHANGED varsAlheias

\* zip.finish() and Ok(caminho_backup)
B_Finish ==
    /\ pcb = "b_finish"
    /\ \/ BackupFalha /\ UNCHANGED zips
       \/ /\ zips' = Escrever(zips, zw.nome,
                        [finalizado |-> TRUE, entradas |-> zw.entradas,
                         manifesto |-> zw.manifesto])
          /\ pcb' = "b_ok"
          /\ zw' = ZwParado
          /\ j' = 1
    /\ UNCHANGED <<arquivos, db, relogio, varsRestaurar>>
    /\ UNCHANGED varsAlheias

criar_backup ==
    \/ B_CriarDestino
    \/ B_CriarArquivo
    \/ B_Banco
    \/ B_Listar
    \/ B_Anexo
    \/ B_Contar
    \/ B_Manifesto
    \/ B_Finish

\* --------------------------------------------------- restaurar_backup
varsBackup == <<pcb, zw, j>>

\* return Err(..) with the given context
Falhar(m) ==
    /\ resultado' = "erro"
    /\ motivo' = m
    /\ pc' = "fim"

\* fs::File::open(arquivo) and zip::ZipArchive::new
R_AbrirZip ==
    /\ pc = "inicio"
    /\ \/ Falhar("abrir_arquivo")
       \/ ~zip.finalizado /\ Falhar("zip_invalido")
       \/ /\ zip.finalizado
          /\ pc' = "manifesto"
          /\ UNCHANGED <<resultado, motivo>>
    /\ UNCHANGED <<zip, arquivos, zips, db, relogio, manifesto, conteudo_banco,
                   i, res_backup, inicial, avisos, etapas, varsBackup>>
    /\ UNCHANGED varsAlheias

\* ler_manifesto_do_zip with the parse result used whether or not it parsed
M_ler_manifesto_sem_validar ==
    \/ ~TemEntrada(zip, NomeManifesto)
         /\ Falhar("manifesto_ausente") /\ UNCHANGED <<manifesto, etapas>>
    \/ TemEntrada(zip, NomeManifesto)
         /\ Falhar("manifesto_leitura") /\ UNCHANGED <<manifesto, etapas>>
    \/ /\ TemEntrada(zip, NomeManifesto)
       /\ manifesto' = zip.manifesto
       /\ etapas' = Append(etapas, "ManifestValidated")
       /\ pc' = "dir_auto"
       /\ UNCHANGED <<resultado, motivo>>

\* ler_manifesto_do_zip: by_name, read_to_string, serde_json::from_str
ler_manifesto_do_zip ==
    \/ ~TemEntrada(zip, NomeManifesto)
         /\ Falhar("manifesto_ausente") /\ UNCHANGED <<manifesto, etapas>>
    \/ TemEntrada(zip, NomeManifesto)
         /\ Falhar("manifesto_leitura") /\ UNCHANGED <<manifesto, etapas>>
    \/ TemEntrada(zip, NomeManifesto) /\ ~zip.manifesto.valido
         /\ Falhar("manifesto_invalido") /\ UNCHANGED <<manifesto, etapas>>
    \/ /\ TemEntrada(zip, NomeManifesto)
       /\ zip.manifesto.valido
       /\ manifesto' = zip.manifesto
       /\ etapas' = Append(etapas, "ManifestValidated")
       /\ pc' = "dir_auto"
       /\ UNCHANGED <<resultado, motivo>>

R_LerManifesto ==
    /\ pc = "manifesto"
    /\ ler_manifesto_do_zip
    /\ UNCHANGED <<zip, arquivos, zips, db, relogio, conteudo_banco, i,
                   res_backup, inicial, avisos, varsBackup>>
    /\ UNCHANGED varsAlheias

\* R_CriarDirBackupsAuto with the call of criar_backup left out
M_CriarDirSemSnapshot ==
    /\ pc = "dir_auto"
    /\ \/ Falhar("dir_backups_auto")
       \/ /\ pc' = "ler_banco"
          /\ UNCHANGED <<resultado, motivo>>
    /\ UNCHANGED <<zip, arquivos, zips, db, relogio, manifesto, conteudo_banco,
                   i, res_backup, inicial, avisos, etapas, varsBackup>>
    /\ UNCHANGED varsAlheias

\* fs::create_dir_all(backups_automaticos), then criar_backup is entered
R_CriarDirBackupsAuto ==
    /\ pc = "dir_auto"
    /\ \/ Falhar("dir_backups_auto") /\ UNCHANGED pcb
       \/ /\ pc' = "snapshot"
          /\ pcb' = "b_inicio"
          /\ UNCHANGED <<resultado, motivo>>
    /\ UNCHANGED <<zip, arquivos, zips, db, relogio, manifesto, conteudo_banco,
                   i, res_backup, inicial, avisos, etapas, zw, j>>
    /\ UNCHANGED varsAlheias

\* match criar_backup(..) { Ok => info!, Err => info! }
R_FimSnapshot ==
    /\ pc = "snapshot"
    /\ pcb \in {"b_ok", "b_erro"}
    /\ res_backup' = IF pcb = "b_ok" THEN "ok" ELSE "erro"
    /\ pcb' = "parado"
    /\ pc' = "ler_banco"
    /\ etapas' = Append(etapas, "SafetySnapshotTaken")
    /\ UNCHANGED <<zip, arquivos, zips, db, relogio, manifesto, conteudo_banco,
                   i, resultado, motivo, inicial, avisos, zw, j>>
    /\ UNCHANGED varsAlheias

\* R_LerBanco with an archive without banco.sqlite taken as one of an empty
\* database, which is written unchecked
M_LerBancoOuVazio ==
    /\ pc = "ler_banco"
    /\ \/ /\ ~TemEntrada(zip, NomeBanco)
          /\ conteudo_banco' = 0
          /\ pc' = "escrever_banco"
          /\ UNCHANGED <<resultado, motivo>>
       \/ TemEntrada(zip, NomeBanco)
            /\ Falhar("banco_leitura") /\ UNCHANGED conteudo_banco
       \/ /\ TemEntrada(zip, NomeBanco)
          /\ conteudo_banco' = PorNome(zip, NomeBanco).dados
          /\ pc' = "hash"
          /\ UNCHANGED <<resultado, motivo>>
    /\ UNCHANGED <<zip, arquivos, zips, db, relogio, manifesto, i, res_backup,
                   inicial, avisos, etapas, varsBackup>>
    /\ UNCHANGED varsAlheias

\* zip.by_name("banco.sqlite") and read_to_end
R_LerBanco ==
    /\ pc = "ler_banco"
    /\ \/ ~TemEntrada(zip, NomeBanco)
            /\ Falhar("banco_ausente") /\ UNCHANGED conteudo_banco
       \/ TemEntrada(zip, NomeBanco)
            /\ Falhar("banco_leitura") /\ UNCHANGED conteudo_banco
       \/ /\ TemEntrada(zip, NomeBanco)
          /\ conteudo_banco' = PorNome(zip, NomeBanco).dados
          /\ pc' = "hash"
          /\ UNCHANGED <<resultado, motivo>>
    /\ UNCHANGED <<zip, arquivos, zips, db, relogio, manifesto, i, res_backup,
                   inicial, avisos, etapas, varsBackup>>
    /\ UNCHANGED varsAlheias

\* R_VerificarHash with the database written before its digest is compared
M_VerificarHashDepois ==
    /\ pc = "hash"
    /\ arquivos' = Escrever(arquivos, CaminhoBanco, conteudo_banco)
    /\ IF calcular_hash_bytes(conteudo_banco) # manifesto.hash_banco
       THEN Falhar("hash_banco")
       ELSE pc' = "escrever_banco" /\ UNCHANGED <<resultado, motivo>>
    /\ UNCHANGED <<zip, zips, db, relogio, manifesto, conteudo_banco,
                   i, res_backup, inicial, avisos, etapas, varsBackup>>
    /\ UNCHANGED varsAlheias

\* R_VerificarHash with the comparison left out
M_VerificarHashNunca ==
    /\ pc = "hash"
    /\ pc' = "escrever_banco"
    /\ UNCHANGED <<zip, arquivos, zips, db, relogio, manifesto, conteudo_banco,
                   i, resultado, motivo, res_backup, inicial, avisos, etapas,
                   varsBackup>>
    /\ UNCHANGED varsAlheias

\* if hash_banco != manifesto.hash_banco { bail! }
R_VerificarHash ==
    /\ pc = "hash"
    /\ IF calcular_hash_bytes(conteudo_banco) # manifesto.hash_banco
       THEN Falhar("hash_banco")
       ELSE pc' = "escrever_banco" /\ UNCHANGED <<resultado, motivo>>
    /\ UNCHANGED <<zip, arquivos, zips, db, relogio, manifesto, conteudo_banco,
                   i, res_backup, inicial, avisos, etapas, varsBackup>>
    /\ UNCHANGED varsAlheias

\* fs::write(vaultcraft.db): a write that fails may have cut the file short
R_EscreverBanco ==
    /\ pc = "escrever_banco"
    /\ \/ /\ Falhar("escrever_banco")
          /\ arquivos' \in {arquivos, Escrever(arquivos, CaminhoBanco, 0)}
          /\ UNCHANGED etapas
       \/ /\ arquivos' = Escrever(arquivos, CaminhoBanco, conteudo_banco)
          /\ etapas' = Append(etapas, "DatabaseReplaced")
          /\ pc' = "limpar"
          /\ UNCHANGED <<resultado, motivo>>
    /\ UNCHANGED <<zip, zips, db, relogio, manifesto, conteudo_banco, i,
                   res_backup, inicial, avisos, varsBackup>>
    /\ UNCHANGED varsAlheias

\* fs::remove_dir_all(dir_anexos): obter_diretorio_armazenamento has just
\* made sure the directory exists; a removal that fails may have removed
\* any of the files
R_LimparAnexos ==
    /\ pc = "limpar"
    /\ \/ /\ Falhar("limpar_anexos")
          /\ \E S \in SUBSET AnexosVivos(arquivos) : arquivos' = Remover(arquivos, S)
       \/ /\ arquivos' = Remover(arquivos, AnexosVivos(arquivos))
          /\ pc' = "recriar"
          /\ UNCHANGED <<resultado, motivo>>
    /\ UNCHANGED <<zip, zips, db, relogio, manifesto, conteudo_banco, i,
                   res_backup, inicial, avisos, etapas, varsBackup>>
    /\ UNCHANGED varsAlheias

\* fs::create_dir_all(dir_anexos)
R_RecriarDir ==
    /\ pc = "recriar"
    /\ \/ Falhar("recriar_anexos") /\ UNCHANGED i
       \/ /\ pc' = "extrair"
          /\ i' = 1
          /\ UNCHANGED <<resultado, motivo>>
    /\ UNCHANGED <<zip, arquivos, zips, db, relogio, manifesto, conteudo_banco,
                   res_backup, inicial, avisos, etapas, varsBackup>>
    /\ UNCHANGED varsAlheias

\* fs::write(p, v) that succeeded: p holds v afterwards, and a file of
\* backups_automaticos written this way is no archive any more
GravarEm(p, v) ==
    IF Len(p) = 2 /\ Dentro(DirBackupsAuto, p)
    THEN /\ zips' = Escrever(zips, p[2], ArquivoIncompleto)
         /\ UNCHANGED arquivos
    ELSE /\ arquivos' = Escrever(arquivos, p, v)
         /\ UNCHANGED zips

\* R_Extrair with a digest mismatch of an attachment treated as an error
M_ExtrairEstrito ==
    /\ pc = "extrair"
    /\ i <= Len(zip.entradas)
    /\ LET entrada == zip.entradas[i]
           caminho_relativo == CaminhoRelativo(entrada)
           caminho_destino == Juntar(obter_diretorio_armazenamento, caminho_relativo)
           confere == caminho_relativo \in DOMAIN manifesto.hashes_anexos
                        => calcular_hash_bytes(entrada.dados)
                              = manifesto.hashes_anexos[caminho_relativo]
       IN \/ /\ ~EhAnexo(entrada)
             /\ i' = i + 1
             /\ UNCHANGED <<arquivos, zips, avisos, pc, resultado, motivo>>
          \/ /\ EhAnexo(entrada)
             /\ ~confere
             /\ Falhar("hash_anexo")
             /\ UNCHANGED <<arquivos, zips, avisos, i>>
          \/ /\ EhAnexo(entrada)
             /\ confere
             /\ GravarEm(caminho_destino, entrada.dados)
             /\ i' = i + 1
             /\ UNCHANGED <<avisos, pc, resultado, motivo>>
    /\ UNCHANGED <<zip, db, relogio, manifesto, conteudo_banco,
                   res_backup, inicial, etapas, varsBackup>>
    /\ UNCHANGED varsAlheias

\* R_Extrair with the entry written under its file name alone
M_ExtrairSemDiretorio ==
    /\ pc = "extrair"
    /\ i <= Len(zip.entradas)
    /\ LET entrada == zip.entradas[i]
           caminho_relativo == CaminhoRelativo(entrada)
           caminho_destino ==
               Juntar(obter_diretorio_armazenamento,
                      <<caminho_relativo[Len(caminho_relativo)]>>)
           confere == caminho_relativo \in DOMAIN manifesto.hashes_anexos
                        => calcular_hash_bytes(entrada.dados)
                              = manifesto.hashes_anexos[caminho_relativo]
       IN \/ Falhar("entrada_zip") /\ UNCHANGED <<arquivos, zips, avisos, i>>
          \/ /\ ~EhAnexo(entrada)
             /\ i' = i + 1
             /\ UNCHANGED <<arquivos, zips, avisos, pc, resultado, motivo>>
          \/ EhAnexo(entrada)
               /\ Falhar("criar_dir_anexo") /\ UNCHANGED <<arquivos, zips, avisos, i>>
          \/ EhAnexo(entrada)
               /\ Falhar("ler_anexo") /\ UNCHANGED <<arquivos, zips, avisos, i>>
          \/ /\ EhAnexo(entrada)
             /\ Falhar("escrever_anexo")
             /\ avisos' = IF confere THEN avisos ELSE avisos \cup {caminho_relativo}
             /\ \/ UNCHANGED <<arquivos, zips>>
                \/ GravarEm(caminho_destino, 0)
             /\ UNCHANGED i
          \/ /\ EhAnexo(entrada)
             /\ avisos' = IF confere THEN avisos ELSE avisos \cup {caminho_relativo}
             /\ GravarEm(caminho_destino, entrada.dados)
             /\ i' = i + 1
             /\ UNCHANGED <<pc, resultado, motivo>>
    /\ UNCHANGED <<zip, db, relogio, manifesto, conteudo_banco,
                   res_backup, inicial, etapas, varsBackup>>
    /\ UNCHANGED varsAlheias

\* one turn of the loop for i in 0..zip.len()
R_Extrair ==
    /\ pc = "extrair"
    /\ i <= Len(zip.entradas)
    /\ LET entrada == zip.entradas[i]
           caminho_relativo == CaminhoRelativo(entrada)
           caminho_destino == Juntar(obter_diretorio_armazenamento, caminho_relativo)
           confere == caminho_relativo \in DOMAIN manifesto.hashes_anexos
                        => calcular_hash_bytes(entrada.dados)
                              = manifesto.hashes_anexos[caminho_relativo]
       IN \/ Falhar("entrada_zip") /\ UNCHANGED <<arquivos, zips, avisos, i>>
          \/ /\ ~EhAnexo(entrada)
             /\ i' = i + 1
             /\ UNCHANGED <<arquivos, zips, avisos, pc, resultado, motivo>>
          \/ EhAnexo(entrada)
               /\ Falhar("criar_dir_anexo") /\ UNCHANGED <<arquivos, zips, avisos, i>>
          \/ EhAnexo(entrada)
               /\ Falhar("ler_anexo") /\ UNCHANGED <<arquivos, zips, avisos, i>>
          \/ /\ EhAnexo(entrada)
             /\ Falhar("escrever_anexo")
             /\ avisos' = IF confere THEN avisos ELSE avisos \cup {caminho_relativo}
             /\ \/ UNCHANGED <<arquivos, zips>>
                \/ GravarEm(caminho_destino, 0)
             /\ UNCHANGED i
          \/ /\ EhAnexo(entrada)
             /\ avisos' = IF confere THEN avisos ELSE avisos \cup {caminho_relativo}
             /\ GravarEm(caminho_destino, entrada.dados)
             /\ i' = i + 1
             /\ UNCHANGED <<pc, resultado, motivo>>
    /\ UNCHANGED <<zip, db, relogio, manifesto, conteudo_banco,
                   res_backup, inicial, etapas, varsBackup>>
    /\ UNCHANGED varsAlheias

\* R_Retornar with every path of manifesto.hashes_anexos required to have
\* been an entry of the archive
M_RetornarExigindoAnexos ==
    /\ pc = "extrair"
    /\ i > Len(zip.entradas)
    /\ IF \A r \in DOMAIN manifesto.hashes_anexos :
             TemEntrada(zip, <<"anexos">> \o r)
       THEN /\ resultado' = "ok"
            /\ pc' = "fim"
            /\ etapas' = etapas \o <<"AttachmentsReplaced", "Complete">>
            /\ UNCHANGED motivo
       ELSE Falhar("anexo_ausente") /\ UNCHANGED etapas
    /\ UNCHANGED <<zip, arquivos, zips, db, relogio, manifesto, conteudo_banco,
                   i, res_backup, inicial, avisos, varsBackup>>
    /\ UNCHANGED varsAlheias

\* the loop is over: info!("Backup restaurado com sucesso!") and Ok(())
R_Retornar ==
    /\ pc = "extrair"
    /\ i > Len(zip.entradas)
    /\ resultado' = "ok"
    /\ pc' = "fim"
    /\ etapas' = etapas \o <<"AttachmentsReplaced", "Complete">>
    /\ UNCHANGED <<zip, arquivos, zips, db, relogio, manifesto, conteudo_banco,
                   i, motivo, res_backup, inicial, avisos, varsBackup>>
    /\ UNCHANGED varsAlheias

restaurar_backup ==
    \/ R_AbrirZip
    \/ R_LerManifesto
    \/ R_CriarDirBackupsAuto
    \/ (pc = "snapshot" /\ criar_backup)
    \/ R_FimSnapshot
    \/ R_LerBanco
    \/ R_VerificarHash
    \/ R_EscreverBanco
    \/ R_LimparAnexos
    \/ R_RecriarDir
    \/ R_Extrair
    \/ R_Retornar

Next == restaurar_backup
Spec == Init /\ [][Next]_vars

\* ----------------------------------------------- exportar_pacote_pasta
\* the characters char::is_alphanumeric accepts, of those the names use
Alfanumericos == {"a", "b"}

\* pasta.nome.replace(|c| !c.is_alphanumeric() && c != '_' && c != '-', "_")
nome_limpo(nome) ==
    [k \in 1..Len(nome) |->
        IF nome[k] \in Alfanumericos \cup {"_", "-"} THEN nome[k] ELSE "_"]

\* format!("vaultcraft_pacote_{}_{}.vaultbackup", nome_limpo, agora)
NomePacote(nome, t) == <<"vaultcraft_pacote", nome_limpo(nome), t>>

NomeDados == <<"dados.json">>

\* queries::obter_pasta_por_id finds a row
TemPasta(d, id) == \E p \in d.pastas : p.id = id

\* queries::obter_pasta_por_id: the row of that id
obter_pasta_por_id(d, id) == CHOOSE p \in d.pastas : p.id = id

\* queries::listar_itens_completos_da_pasta: the items whose pasta_id is id,
\* each with its attachments; the folders below it are not visited
listar_itens_completos_da_pasta(d, id) ==
    SelectSeq(d.itens, LAMBDA it : it.pasta_id = id)

\* for item in &itens { for anexo in &item.anexos { .. } }: the order in
\* which the two loops visit the attachments
RECURSIVE AnexosDosItens(_)
AnexosDosItens(itens) ==
    IF itens = <<>> THEN <<>>
    ELSE Head(itens).anexos \o AnexosDosItens(Tail(itens))

\* what exportar_pacote_pasta leaves alone
varsForaDoExportar ==
    <<arquivos, zips, db, relogio, varsRestaurar, varsBackup, pasta_id,
      varsImportar, varsComandos, origem, chamadas>>

\* exportar_pacote_pasta returns Err: the writer is dropped without finish()
ExportarFalha ==
    /\ pce' = "e_erro"
    /\ ze' = ZeParado

\* E_ObterPasta with a folder that is not found taken for a nameless one
M_ObterPastaSemFalhar ==
    /\ pce = "e_inicio"
    /\ \/ ExportarFalha
       \/ /\ ze' = IF TemPasta(db, pasta_id)
                    THEN [ZeParado EXCEPT
                            !.pasta = obter_pasta_por_id(db, pasta_id),
                            !.nome = NomePacote(
                                obter_pasta_por_id(db, pasta_id).nome, relogio)]
                    ELSE [ZeParado EXCEPT !.nome = NomePacote(<<>>, relogio)]
          /\ pce' = "e_criar"
    /\ UNCHANGED <<pacotes, varsForaDoExportar>>

\* queries::obter_pasta_por_id(conexao, pasta_id)? and the name of the file
E_ObterPasta ==
    /\ pce = "e_inicio"
    /\ \/ ExportarFalha
       \/ /\ TemPasta(db, pasta_id)
          /\ ze' = [ZeParado EXCEPT
                      !.pasta = obter_pasta_por_id(db, pasta_id),
                      !.nome = NomePacote(obter_pasta_por_id(db, pasta_id).nome,
                                          relogio)]
          /\ pce' = "e_criar"
    /\ UNCHANGED <<pacotes, varsForaDoExportar>>

\* fs::File::create(&caminho_pacote): the file exists, empty, from here on
E_CriarArquivo ==
    /\ pce = "e_criar"
    /\ \/ ExportarFalha /\ UNCHANGED pacotes
       \/ /\ pacotes' = Escrever(pacotes, ze.nome, ArquivoIncompleto)
          /\ pce' = "e_listar"
          /\ UNCHANGED ze
    /\ UNCHANGED varsForaDoExportar

\* E_ListarItens with the items of every folder listed
M_ListarTodosOsItens ==
    /\ pce = "e_listar"
    /\ \/ ExportarFalha
       \/ /\ ze' = [ze EXCEPT !.itens = db.itens,
                              !.fila = AnexosDosItens(db.itens),
                              !.a = 1]
          /\ pce' = "e_dados"
    /\ UNCHANGED <<pacotes, varsForaDoExportar>>

\* queries::listar_itens_completos_da_pasta(conexao, pasta_id)?
E_ListarItens ==
    /\ pce = "e_listar"
    /\ \/ ExportarFalha
       \/ /\ ze' = [ze EXCEPT
                      !.itens = listar_itens_completos_da_pasta(db, pasta_id),
                      !.fila = AnexosDosItens(
                                  listar_itens_completos_da_pasta(db, pasta_id)),
                      !.a = 1]
          /\ pce' = "e_dados"
    /\ UNCHANGED <<pacotes, varsForaDoExportar>>

\* the entry dados.json: {"pasta": pasta, "itens": itens}
E_Dados ==
    /\ pce = "e_dados"
    /\ \/ ExportarFalha
       \/ /\ ze' = [ze EXCEPT !.entradas = Append(@,
                      Entrada(NomeDados,
                              [valido |-> TRUE, pasta |-> ze.pasta,
                               itens |-> ze.itens], FALSE))]
          /\ pce' = "e_anexo"
    /\ UNCHANGED <<pacotes, varsForaDoExportar>>

\* E_Anexo with the digest recorded only for the first attachment archived
M_AnexoComUmSoHash ==
    /\ pce = "e_anexo"
    /\ ze.a <= Len(ze.fila)
    /\ LET caminho_interno == ze.fila[ze.a]
           caminho_completo == Juntar(obter_diretorio_armazenamento, caminho_interno)
       IN IF caminho_completo \in DOMAIN arquivos
          THEN \/ ExportarFalha
               \/ /\ ze' = [ze EXCEPT
                              !.hashes =
                                  IF DOMAIN @ = {}
                                  THEN Escrever(@, caminho_interno,
                                     calcular_hash_bytes(arquivos[caminho_completo]))
                                  ELSE @,
                              !.entradas = Append(@,
                                  Entrada(<<"anexos">> \o caminho_interno,
                                          arquivos[caminho_completo], FALSE)),
                              !.a = @ + 1]
                  /\ UNCHANGED pce
          ELSE /\ ze' = [ze EXCEPT !.a = @ + 1]
               /\ UNCHANGED pce
    /\ UNCHANGED <<pacotes, varsForaDoExportar>>

\* one turn of the inner loop over the attachments of the items
E_Anexo ==
    /\ pce = "e_anexo"
    /\ ze.a <= Len(ze.fila)
    /\ LET caminho_interno == ze.fila[ze.a]
           caminho_completo == Juntar(obter_diretorio_armazenamento, caminho_interno)
       IN IF caminho_completo \in DOMAIN arquivos
          THEN \/ ExportarFalha
               \/ /\ ze' = [ze EXCEPT
                              !.hashes = Escrever(@, caminho_interno,
                                  calcular_hash_bytes(arquivos[caminho_completo])),
                              !.entradas = Append(@,
                                  Entrada(<<"anexos">> \o caminho_interno,
                                          arquivos[caminho_completo], FALSE)),
                              !.a = @ + 1]
                  /\ UNCHANGED pce
          ELSE /\ ze' = [ze EXCEPT !.a = @ + 1]
               /\ UNCHANGED pce
    /\ UNCHANGED <<pacotes, varsForaDoExportar>>

\* the manifest of the package and the entry manifesto.json
E_Manifesto ==
    /\ pce = "e_anexo"
    /\ ze.a > Len(ze.fila)
    /\ \/ ExportarFalha
       \/ /\ ze' = [ze EXCEPT
                      !.manifesto =
                          [valido |-> TRUE,
                           versao_schema |-> versao_mais_recente,
                           total_itens |-> Len(ze.itens),
                           total_anexos |-> Cardinality(DOMAIN ze.hashes),
                           hash_banco |-> HashVazio,
                           hashes_anexos |-> ze.hashes],
                      !.entradas = Append(@, Entrada(NomeManifesto, 0, FALSE))]
          /\ pce' = "e_finish"
    /\ UNCHANGED <<pacotes, varsForaDoExportar>>

\* zip.finish() and Ok(caminho_pacote)
E_Finish ==
    /\ pce = "e_finish"
    /\ \/ ExportarFalha /\ UNCHANGED pacotes
       \/ /\ pacotes' = Escrever(pacotes, ze.nome,
                           [finalizado |-> TRUE, entradas |-> ze.entradas,
                            manifesto |-> ze.manifesto])
          /\ pce' = "e_ok"
          /\ ze' = ZeParado
    /\ UNCHANGED varsForaDoExportar

exportar_pacote_pasta ==
    \/ E_ObterPasta
    \/ E_CriarArquivo
    \/ E_ListarItens
    \/ E_Dados
    \/ E_Anexo
    \/ E_Manifesto
    \/ E_Finish

\* --------------------------------------- the vaults that are archived
\* the caminho_interno of the rows of anexos, in the order of the table
CaminhosInternos ==
    <<<<"u1", "f">>, <<"u2", "f">>, <<"u3", "f">>, <<"u4", "f">>>>

\* a file salvar_anexo copied for a row that criar_anexo then failed to insert
CaminhoOrfao == obter_diretorio_armazenamento \o <<"u8", "f">>

IdsItens == <<"i1", "i2">>
PastasDosItens == <<"p1", "p2">>

\* A vault: the database file holds b; the table anexos has n rows, the
\* k-th owned by the item dono[k] or by a task, its file holding disco[k]
\* or, when that is 0, gone from disk; the table itens has ni rows.
Cofre(b, n, ni, dono, disco, orfao) ==
    LET indices == [k \in 1..n |-> k]
        doItem(id) == SelectSeq(indices, LAMBDA k : dono[k] = id)
        noDisco == {k \in 1..n : disco[k] # 0}
        F(k) == obter_diretorio_armazenamento \o CaminhosInternos[k]
    IN [arquivos |->
            [p \in {CaminhoBanco} \cup {F(k) : k \in noDisco}
                   \cup (IF orfao THEN {CaminhoOrfao} ELSE {}) |->
                IF p = CaminhoBanco THEN b
                ELSE IF p = CaminhoOrfao THEN 1
                ELSE disco[CHOOSE k \in noDisco : F(k) = p]],
        db |->
            [n_itens |-> ni,
             caminhos |-> [k \in 1..n |-> CaminhosInternos[k]],
             pastas |-> {PastaDocs, PastaFotos},
             itens |-> [m \in 1..ni |->
                          Item(IdsItens[m], PastasDosItens[m],
                               [x \in 1..Len(doItem(IdsItens[m])) |->
                                   CaminhosInternos[doItem(IdsItens[m])[x]]])]]]

\* a and d are the files and the database of some vault within the bounds
EhCofre(a, d) ==
    \E n \in 0..MaxAnexos : \E ni \in 0..Len(IdsItens) : \E b \in Bytes :
        \E dono \in [1..n -> {"tarefa"} \cup {IdsItens[m] : m \in 1..ni}] :
            \E disco \in [1..n -> 0..MaxByte] : \E orfao \in BOOLEAN :
                LET c == Cofre(b, n, ni, dono, disco, orfao)
                IN a = c.arquivos /\ d = c.db

\* a package an earlier export left in destino under the name the folders
\* p1 and p2 are exported to at second 0
PacoteAntigo ==
    [finalizado |-> TRUE, entradas |-> <<>>, manifesto |-> ManifestoInvalido]

PacotesAntigos ==
    {<<>>, [n \in {NomePacote(PastaDocs.nome, 0)} |-> PacoteAntigo]}

\* restaurar_backup is not running
RestaurarParado ==
    /\ zip = ArquivoIncompleto
    /\ pc = "parado"
    /\ manifesto = ManifestoInvalido
    /\ conteudo_banco = 0
    /\ i = 1
    /\ resultado = "nenhum"
    /\ motivo = ""
    /\ res_backup = "nenhum"
    /\ avisos = {}
    /\ etapas = <<"Idle">>

\* one call of criar_backup, or one of exportar_pacote_pasta, on any vault
InitArquivar ==
    /\ EhCofre(arquivos, db)
    /\ inicial = arquivos
    /\ origem = [arquivos |-> arquivos, db |-> db]
    /\ chamadas = 0
    /\ zips = <<>>
    /\ relogio = 0
    /\ RestaurarParado
    /\ zw = ZwParado
    /\ j = 1
    /\ ze = ZeParado
    /\ ImportarParado
    /\ ComandosParados
    /\ \/ /\ pcb = "b_inicio"
          /\ pce = "parado"
          /\ pasta_id = "None"
          /\ pacotes = <<>>
       \/ /\ pcb = "parado"
          /\ pce = "e_inicio"
          /\ pasta_id \in {"p1", "p2", "p9"}
          /\ pacotes \in PacotesAntigos

NextArquivar == criar_backup \/ exportar_pacote_pasta

SpecArquivar == InitArquivar /\ [][NextArquivar]_vars

\* ------------------------------ backup, then restore into a new vault
\* the database of a vault that was just installed
BancoVazio == [n_itens |-> 0, caminhos |-> <<>>, pastas |-> {}, itens |-> <<>>]

\* one call of criar_backup on any vault
InitIdaEVolta ==
    /\ EhCofre(arquivos, db)
    /\ inicial = arquivos
    /\ origem = [arquivos |-> arquivos, db |-> db]
    /\ chamadas = 0
    /\ zips = <<>>
    /\ relogio = 0
    /\ RestaurarParado
    /\ pcb = "b_inicio"
    /\ zw = ZwParado
    /\ j = 1
    /\ ExportarParado
    /\ ImportarParado
    /\ ComandosParados

\* The archive of the backup that returned Ok is taken to a vault that was
\* just installed, with a database file of its own and no attachments, and
\* restaurar_backup is called on it there.
LevarAoCofreNovo ==
    /\ pc = "parado"
    /\ pcb = "b_ok"
    /\ zip' = zips[NomeBackup(relogio)]
    /\ arquivos' = [p \in {CaminhoBanco} |-> 1]
    /\ inicial' = arquivos'
    /\ db' = BancoVazio
    /\ zips' = <<>>
    /\ pc' = "inicio"
    /\ pcb' = "parado"
    /\ chamadas' = chamadas + 1
    /\ UNCHANGED <<relogio, manifesto, conteudo_banco, i, zw, j, resultado,
                   motivo, res_backup, avisos, etapas, varsExportar, varsImportar,
                   varsComandos, origem>>

NextIdaEVolta ==
    \/ (pc = "parado" /\ criar_backup)
    \/ LevarAoCofreNovo
    \/ restaurar_backup

SpecIdaEVolta == InitIdaEVolta /\ [][NextIdaEVolta]_vars

\* --------------------------------------- one restore after the other
\* restaurar_backup went through the stage e
Passou(e) == \E k \in 1..Len(etapas) : etapas[k] = e

\* a finished archive of the database bytes b, whose manifest records the
\* digest of hb, and of the attachment entries es
ArquivoDe(b, hb, es) ==
    [finalizado |-> TRUE,
     entradas |-> <<Entrada(NomeBanco, b, FALSE)>> \o es
                     \o <<Entrada(NomeManifesto, 0, FALSE)>>,
     manifesto |-> [valido |-> TRUE, versao_schema |-> versao_mais_recente,
                    total_itens |-> 0, total_anexos |-> Len(es),
                    hash_banco |-> calcular_hash_bytes(hb),
                    hashes_anexos |-> HashesCorretos(es)]]

\* the archives restored one after the other: a backup of another vault,
\* an archive whose manifest records another digest for banco.sqlite, and
\* one with an entry that climbs to the snapshot of second 0
ArquivosDaSequencia ==
    {ArquivoDe(2, 2, <<Entrada(<<"anexos", "u2", "f">>, 1, FALSE)>>),
     ArquivoDe(1, 2, <<>>),
     ArquivoDe(1, 1, <<Entrada(<<"anexos", "..", "..", "backups_automaticos",
                                NomeBackup(0)>>, 1, FALSE)>>)}

InitSequencia ==
    /\ zip \in ArquivosDaSequencia
    /\ arquivos = ArquivosIniciais
    /\ zips = <<>>
    /\ db = BancoInicial
    /\ relogio = 0
    /\ pc = "inicio"
    /\ manifesto = ManifestoInvalido
    /\ conteudo_banco = 0
    /\ i = 1
    /\ pcb = "parado"
    /\ zw = ZwParado
    /\ j = 1
    /\ resultado = "nenhum"
    /\ motivo = ""
    /\ res_backup = "nenhum"
    /\ inicial = ArquivosIniciais
    /\ avisos = {}
    /\ etapas = <<"Idle">>
    /\ ExportarParado
    /\ ImportarParado
    /\ ComandosParados
    /\ origem = [arquivos |-> arquivos, db |-> db]
    /\ chamadas = 1

\* restaurar_backup is called again once the call before it has returned.
\* The connection stays open across calls: after the database file was
\* overwritten under it, it answers as before or as from the new file.
R_Chamar ==
    /\ pc = "fim"
    /\ chamadas < MaxChamadas
    /\ chamadas' = chamadas + 1
    /\ zip' \in ArquivosDaSequencia
    /\ db' \in IF Passou("DatabaseReplaced") THEN {db, BancoVazio} ELSE {db}
    /\ pc' = "inicio"
    /\ manifesto' = ManifestoInvalido
    /\ conteudo_banco' = 0
    /\ i' = 1
    /\ resultado' = "nenhum"
    /\ motivo' = ""
    /\ res_backup' = "nenhum"
    /\ inicial' = arquivos
    /\ avisos' = {}
    /\ etapas' = <<"Idle">>
    /\ UNCHANGED <<arquivos, zips, relogio, varsBackup, varsExportar, varsImportar,
                   varsComandos, origem>>

\* Utc::now() moves on by a second between two calls
Tique ==
    /\ pc = "fim"
    /\ relogio < Len(NomesBackup) - 1
    /\ relogio' = relogio + 1
    /\ UNCHANGED <<arquivos, zips, db, varsRestaurar, varsBackup, varsAlheias>>

NextSequencia ==
    \/ restaurar_backup
    \/ R_Chamar
    \/ Tique

SpecSequencia == InitSequencia /\ [][NextSequencia]_vars

\* ------------------------------------------------------ importar_pacote
\* Uuid::new_v4(): the ids importar_pacote draws, none of them in use
NovosIds == <<"n1", "n2", "n3", "n4", "n5", "n6", "n7", "n8", "n9", "n10">>

\* format!("{} (importado)", nome)
NomeImportado(nome) == nome \o <<" (importado)">>

\* anexo_json["nome_original"]: what follows the id in the caminho_interno
\* salvar_anexo gave the row, format!("{}/{}", id, nome_original)
nome_original(caminho_interno) == Tail(caminho_interno)

\* what importar_pacote leaves alone
varsForaDoImportar ==
    <<zips, relogio, varsRestaurar, varsBackup, varsExportar, varsComandos,
      origem, chamadas>>

\* importar_pacote returns Err for the reason e, having drawn n ids in the
\* step that failed: its locals are dropped, nothing it did is undone, and
\* the ids it drew are not drawn again
ImportarFalha(e, n) ==
    /\ pci' = "i_erro"
    /\ zi' = [ZiParado EXCEPT !.erro = e, !.u = zi.u + n]

\* fs::File::open(caminho_pacote) and ZipArchive::new(arquivo)
I_AbrirZip ==
    /\ pci = "i_inicio"
    /\ IF zip.finalizado
       THEN \/ ImportarFalha("es", 0)
            \/ pci' = "i_dados" /\ UNCHANGED zi
       ELSE ImportarFalha("abrir", 0)
    /\ UNCHANGED <<arquivos, db, varsForaDoImportar>>

\* zip.by_name("dados.json"), read_to_string, serde_json::from_str
I_LerDados ==
    /\ pci = "i_dados"
    /\ IF TemEntrada(zip, NomeDados) /\ PorNome(zip, NomeDados).dados.valido
       THEN \/ ImportarFalha("es", 0)
            \/ /\ zi' = [zi EXCEPT !.dados = PorNome(zip, NomeDados).dados]
               /\ pci' = "i_pasta"
       ELSE ImportarFalha("dados", 0)
    /\ UNCHANGED <<arquivos, db, varsForaDoImportar>>

\* I_CriarPasta with the items put into a folder of the suffixed name when
\* the vault already has one
M_CriarPastaOuReusar ==
    /\ pci = "i_pasta"
    /\ LET pai == zi.dados.pasta.pasta_pai_id
           id == NovosIds[zi.u]
           nome == NomeImportado(zi.dados.pasta.nome)
           iguais == {p \in db.pastas : p.nome = nome}
       IN IF pai # "None" /\ ~TemPasta(db, pai)
          THEN ImportarFalha("pasta_pai", 1) /\ UNCHANGED db
          ELSE \/ ImportarFalha("es", 1) /\ UNCHANGED db
               \/ /\ db' = IF iguais # {} THEN db
                            ELSE [db EXCEPT !.pastas = @ \cup {Pasta(id, pai, nome)}]
                  /\ zi' = [zi EXCEPT
                              !.pasta = IF iguais # {}
                                        THEN (CHOOSE p \in iguais : TRUE).id ELSE id,
                              !.u = @ + 1, !.k = 1]
                  /\ pci' = "i_item"
    /\ UNCHANGED <<arquivos, varsForaDoImportar>>

\* queries::criar_pasta(conexao, &nova_pasta)?: the parent named by the
\* package is looked up, then the row is inserted under a new id
I_CriarPasta ==
    /\ pci = "i_pasta"
    /\ LET pai == zi.dados.pasta.pasta_pai_id
           id == NovosIds[zi.u]
       IN IF pai # "None" /\ ~TemPasta(db, pai)
          THEN ImportarFalha("pasta_pai", 1) /\ UNCHANGED db
          ELSE \/ ImportarFalha("es", 1) /\ UNCHANGED db
               \/ /\ db' = [db EXCEPT !.pastas = @ \cup
                               {Pasta(id, pai, NomeImportado(zi.dados.pasta.nome))}]
                  /\ zi' = [zi EXCEPT !.pasta = id, !.u = @ + 1, !.k = 1]
                  /\ pci' = "i_item"
    /\ UNCHANGED <<arquivos, varsForaDoImportar>>

\* I_Item with the row inserted under the id the package records
M_ItemComIdDoPacote ==
    /\ pci = "i_item"
    /\ zi.k <= Len(zi.dados.itens)
    /\ \/ ImportarFalha("es", 1) /\ UNCHANGED db
       \/ /\ db' = [db EXCEPT !.itens = Append(@, Item(zi.dados.itens[zi.k].id,
                                                       zi.pasta, <<>>)),
                              !.n_itens = @ + 1]
          /\ zi' = [zi EXCEPT !.item = zi.dados.itens[zi.k].id, !.u = @ + 1, !.a = 1]
          /\ pci' = "i_anexo"
    /\ UNCHANGED <<arquivos, varsForaDoImportar>>

\* I_Item inside a transaction that a failure rolls back
M_ItemOuDesfaz ==
    /\ pci = "i_item"
    /\ zi.k <= Len(zi.dados.itens)
    /\ \/ ImportarFalha("es", 1) /\ db' = origem.db
       \/ /\ db' = [db EXCEPT !.itens = Append(@, Item(NovosIds[zi.u], zi.pasta, <<>>)),
                              !.n_itens = @ + 1]
          /\ zi' = [zi EXCEPT !.item = NovosIds[zi.u], !.u = @ + 1, !.a = 1]
          /\ pci' = "i_anexo"
    /\ UNCHANGED <<arquivos, varsForaDoImportar>>

\* for item_json in itens: queries::criar_item(conexao, &novo_item)?
I_Item ==
    /\ pci = "i_item"
    /\ zi.k <= Len(zi.dados.itens)
    /\ \/ ImportarFalha("es", 1) /\ UNCHANGED db
       \/ /\ db' = [db EXCEPT !.itens = Append(@, Item(NovosIds[zi.u], zi.pasta, <<>>)),
                              !.n_itens = @ + 1]
          /\ zi' = [zi EXCEPT !.item = NovosIds[zi.u], !.u = @ + 1, !.a = 1]
          /\ pci' = "i_anexo"
    /\ UNCHANGED <<arquivos, varsForaDoImportar>>

\* queries::criar_anexo(conexao, &anexo): the row of the attachment, which
\* listar_anexos_por_item then loads with its item
criar_anexo(d, item_id, caminho_interno) ==
    [d EXCEPT !.caminhos = Append(@, caminho_interno),
              !.itens = [m \in DOMAIN @ |->
                            IF @[m].id = item_id
                            THEN [@[m] EXCEPT !.anexos = Append(@, caminho_interno)]
                            ELSE @[m]]]

\* I_Anexo with the import given up when the entry of an attachment is absent
M_AnexoExigido ==
    /\ pci = "i_anexo"
    /\ zi.a <= Len(zi.dados.itens[zi.k].anexos)
    /\ LET caminho_interno_original == zi.dados.itens[zi.k].anexos[zi.a]
           caminho_no_zip == <<"anexos">> \o caminho_interno_original
           id_anexo == NovosIds[zi.u]
           dir_novo == obter_diretorio_armazenamento \o <<id_anexo>>
           destino == Juntar(dir_novo, nome_original(caminho_interno_original))
           caminho_interno == <<id_anexo>> \o nome_original(caminho_interno_original)
       IN IF caminho_interno_original # <<>> /\ TemEntrada(zip, caminho_no_zip)
          THEN \* read_to_end or create_dir_all fails
               \/ ImportarFalha("es", 0) /\ UNCHANGED <<arquivos, db>>
               \* fs::write fails after it created the file
               \/ /\ ImportarFalha("es", 1)
                  /\ arquivos' = Escrever(arquivos, destino, 0)
                  /\ UNCHANGED db
               \* criar_anexo fails after the file was written
               \/ /\ ImportarFalha("es", 1)
                  /\ arquivos' = Escrever(arquivos, destino,
                                          PorNome(zip, caminho_no_zip).dados)
                  /\ UNCHANGED db
               \/ /\ arquivos' = Escrever(arquivos, destino,
                                          PorNome(zip, caminho_no_zip).dados)
                  /\ db' = criar_anexo(db, zi.item, caminho_interno)
                  /\ zi' = [zi EXCEPT !.a = @ + 1, !.u = @ + 1]
                  /\ UNCHANGED pci
          ELSE ImportarFalha("anexo", 0) /\ UNCHANGED <<arquivos, db>>
    /\ UNCHANGED varsForaDoImportar

\* for anexo_json in anexos: an attachment whose entry the archive has is
\* written under a new id and recorded; one whose entry is absent is passed
I_Anexo ==
    /\ pci = "i_anexo"
    /\ zi.a <= Len(zi.dados.itens[zi.k].anexos)
    /\ LET caminho_interno_original == zi.dados.itens[zi.k].anexos[zi.a]
           caminho_no_zip == <<"anexos">> \o caminho_interno_original
           id_anexo == NovosIds[zi.u]
           dir_novo == obter_diretorio_armazenamento \o <<id_anexo>>
           destino == Juntar(dir_novo, nome_original(caminho_interno_original))
           caminho_interno == <<id_anexo>> \o nome_original(caminho_interno_original)
       IN IF caminho_interno_original # <<>> /\ TemEntrada(zip, caminho_no_zip)
          THEN \* read_to_end or create_dir_all fails
               \/ ImportarFalha("es", 0) /\ UNCHANGED <<arquivos, db>>
               \* fs::write fails after it created the file
               \/ /\ ImportarFalha("es", 1)
                  /\ arquivos' = Escrever(arquivos, destino, 0)
                  /\ UNCHANGED db
               \* criar_anexo fails after the file was written
               \/ /\ ImportarFalha("es", 1)
                  /\ arquivos' = Escrever(arquivos, destino,
                                          PorNome(zip, caminho_no_zip).dados)
                  /\ UNCHANGED db
               \/ /\ arquivos' = Escrever(arquivos, destino,
                                          PorNome(zip, caminho_no_zip).dados)
                  /\ db' = criar_anexo(db, zi.item, caminho_interno)
                  /\ zi' = [zi EXCEPT !.a = @ + 1, !.u = @ + 1]
                  /\ UNCHANGED pci
          ELSE /\ zi' = [zi EXCEPT !.a = @ + 1]
               /\ UNCHANGED <<pci, arquivos, db>>
    /\ UNCHANGED varsForaDoImportar

\* the attachments of the item are done: the next item_json
I_ProximoItem ==
    /\ pci = "i_anexo"
    /\ zi.a > Len(zi.dados.itens[zi.k].anexos)
    /\ zi' = [zi EXCEPT !.k = @ + 1]
    /\ pci' = "i_item"
    /\ UNCHANGED <<arquivos, db, varsForaDoImportar>>

\* Ok(())
I_Retornar ==
    /\ pci = "i_item"
    /\ zi.k > Len(zi.dados.itens)
    /\ pci' = "i_ok"
    /\ zi' = [ZiParado EXCEPT !.u = zi.u]
    /\ UNCHANGED <<arquivos, db, varsForaDoImportar>>

importar_pacote ==
    \/ I_AbrirZip
    \/ I_LerDados
    \/ I_CriarPasta
    \/ I_Item
    \/ I_Anexo
    \/ I_ProximoItem
    \/ I_Retornar

\* ------------------------------------------- the packages that are imported
\* what dados.json parses to: the folder and its items
Dados(pasta, itens) == [valido |-> TRUE, pasta |-> pasta, itens |-> itens]

DadosInvalidos == [valido |-> FALSE, pasta |-> Pasta("None", "None", <<>>), itens |-> <<>>]

DadosDosPacotes ==
    {Dados(PastaDocs, <<>>),
     Dados(PastaFotos, <<Item("i1", "p2", <<<<"u1", "f">>>>)>>),
     Dados(PastaDocs, <<Item("i1", "p1", <<<<"u1", "f">>, <<"u2", "f">>>>),
                        Item("i2", "p1", <<>>)>>)}

\* the attachment entries a package may carry for the attachments its
\* dados.json names: each one archived with some content, or left out
RECURSIVE EntradasDosAnexos(_)
EntradasDosAnexos(caminhos) ==
    IF caminhos = <<>> THEN {<<>>}
    ELSE LET resto == EntradasDosAnexos(Tail(caminhos))
         IN resto \cup
            {<<Entrada(<<"anexos">> \o Head(caminhos), b, FALSE)>> \o es :
                 b \in Bytes, es \in resto}

\* the manifest exportar_pacote_pasta writes for these entries, at version v
ManifestoDoPacote(d, es, v) ==
    [valido |-> TRUE,
     versao_schema |-> v,
     total_itens |-> Len(d.itens),
     total_anexos |-> Len(es),
     hash_banco |-> HashVazio,
     hashes_anexos |->
         [c \in {SubSeq(es[k].nome, 2, Len(es[k].nome)) : k \in 1..Len(es)} |->
             calcular_hash_bytes(
                 (CHOOSE e \in {es[k] : k \in 1..Len(es)} :
                      e.nome = <<"anexos">> \o c).dados)]]

\* a package with dados.json d, the attachment entries es, and a manifest
\* that is absent, unparsable, of a later schema, or the one an export wrote
Pacote(d, es, m) ==
    [finalizado |-> TRUE,
     entradas |-> <<Entrada(NomeDados, d, FALSE)>> \o es \o
                  (IF m = "ausente" THEN <<>>
                   ELSE <<Entrada(NomeManifesto, 0, FALSE)>>),
     manifesto |->
         IF m = "exportado" THEN ManifestoDoPacote(d, es, versao_mais_recente)
         ELSE IF m = "posterior"
              THEN ManifestoDoPacote(d, es, versao_mais_recente + 1)
              ELSE ManifestoInvalido]

EstadosDoManifesto == {"ausente", "ilegivel", "posterior", "exportado"}

PacotesParaImportar ==
    {ArquivoIncompleto,
     [finalizado |-> TRUE,
      entradas |-> <<Entrada(NomeManifesto, 0, FALSE)>>,
      manifesto |-> ManifestoDoPacote(Dados(PastaDocs, <<>>), <<>>,
                                      versao_mais_recente)],
     Pacote(DadosInvalidos, <<>>, "exportado")}
    \cup UNION {{Pacote(d, es, m) : es \in EntradasDosAnexos(AnexosDosItens(d.itens)),
                                   m \in EstadosDoManifesto}
                : d \in DadosDosPacotes}

\* the vault restaurar_backup is called on after the folder "a b" was
\* imported into it once: it has a folder of the suffixed name, with an item
BancoComImportada ==
    [BancoInicial EXCEPT
        !.n_itens = @ + 1,
        !.pastas = @ \cup {Pasta("p5", "None", NomeImportado(PastaDocs.nome))},
        !.itens = Append(@, Item("i5", "p5", <<>>))]

\* one call of importar_pacote, on the vault restaurar_backup is called on,
\* on that vault after an import, or on one that was just installed
InitImportar ==
    /\ zip \in PacotesParaImportar
    /\ \/ arquivos = ArquivosIniciais /\ db = BancoInicial
       \/ arquivos = ArquivosIniciais /\ db = BancoComImportada
       \/ arquivos = [p \in {CaminhoBanco} |-> 1] /\ db = BancoVazio
    /\ inicial = arquivos
    /\ origem = [arquivos |-> arquivos, db |-> db]
    /\ chamadas = 0
    /\ zips = <<>>
    /\ relogio = 0
    /\ pc = "parado"
    /\ manifesto = ManifestoInvalido
    /\ conteudo_banco = 0
    /\ i = 1
    /\ resultado = "nenhum"
    /\ motivo = ""
    /\ res_backup = "nenhum"
    /\ avisos = {}
    /\ etapas = <<"Idle">>
    /\ pcb = "parado"
    /\ zw = ZwParado
    /\ j = 1
    /\ ExportarParado
    /\ pci = "i_inicio"
    /\ zi = ZiParado
    /\ ComandosParados

NextImportar == importar_pacote

SpecImportar == InitImportar /\ [][NextImportar]_vars

\* ------------------------------------------------- the tauri commands
\* the commands of commands/mod.rs that are followed here: the four of
\* backup and package, and criar_pasta for the CRUD ones
Operacoes ==
    {"criar_backup", "restaurar_backup", "exportar_pacote", "importar_pacote"}

Comandos == Operacoes \cup {"criar_pasta"}

\* the first of the ids Uuid::new_v4() gives the command of the thread t
PrimeiroId(t) == IF t = "t1" THEN 1 ELSE 6

\* the archives the commands restaurar_backup and importar_pacote are given
ArquivosDosComandos(c) ==
    IF c = "restaurar_backup"
    THEN {ArquivoDe(2, 2, <<Entrada(<<"anexos", "u2", "f">>, 1, FALSE)>>),
          ArquivoDe(1, 2, <<>>)}
    ELSE IF c = "importar_pacote"
         THEN {Pacote(Dados(PastaFotos, <<Item("i1", "p2", <<<<"u1", "f">>>>)>>),
                      <<Entrada(<<"anexos", "u1", "f">>, 1, FALSE)>>, "exportado"),
               Pacote(Dados(PastaDocs, <<>>), <<>>, "ausente")}
         ELSE {zip}

\* the folders the command exportar_pacote is asked for
PastasDosComandos(c) ==
    IF c = "exportar_pacote" THEN {"p1", "p9"} ELSE {pasta_id}

\* the frontend invokes a command on a thread of the pool
Invocar(t, c) ==
    /\ fios[t].fase = "fora"
    /\ fios' = [fios EXCEPT ![t] = [comando |-> c, fase |-> "chamado", passo |-> 0]]
    /\ UNCHANGED <<trava, zip, arquivos, zips, db, relogio, pc, manifesto,
                   conteudo_banco, i, pcb, zw, j, resultado, motivo, res_backup,
                   inicial, avisos, etapas, varsExportar, varsImportar, origem,
                   chamadas>>

\* Travar with the guard taken whether or not another thread holds it
M_TravarSemEsperar(t) ==
    /\ fios[t].fase = "chamado"
    /\ trava' = t
    /\ fios' = [fios EXCEPT ![t].fase = "dentro"]
    /\ LET c == fios[t].comando
       IN /\ zip' \in ArquivosDosComandos(c)
          /\ pasta_id' \in PastasDosComandos(c)
          /\ pcb' = IF c = "criar_backup" THEN "b_inicio" ELSE pcb
          /\ pc' = IF c = "restaurar_backup" THEN "inicio" ELSE pc
          /\ pce' = IF c = "exportar_pacote" THEN "e_inicio" ELSE pce
          /\ pci' = IF c = "importar_pacote" THEN "i_inicio" ELSE pci
          /\ zi' = IF c = "importar_pacote"
                   THEN [ZiParado EXCEPT !.u = PrimeiroId(t)] ELSE zi
          /\ inicial' = IF c = "restaurar_backup" THEN arquivos ELSE inicial
          /\ etapas' = IF c = "restaurar_backup" THEN <<"Idle">> ELSE etapas
          /\ avisos' = IF c = "restaurar_backup" THEN {} ELSE avisos
          /\ resultado' = IF c = "restaurar_backup" THEN "nenhum" ELSE resultado
          /\ motivo' = IF c = "restaurar_backup" THEN "" ELSE motivo
          /\ res_backup' = IF c = "restaurar_backup" THEN "nenhum" ELSE res_backup
          /\ manifesto' = IF c = "restaurar_backup" THEN ManifestoInvalido ELSE manifesto
          /\ conteudo_banco' = IF c = "restaurar_backup" THEN 0 ELSE conteudo_banco
          /\ i' = IF c = "restaurar_backup" THEN 1 ELSE i
    /\ UNCHANGED <<arquivos, zips, db, relogio, zw, j, pacotes, ze, origem,
                   chamadas>>

\* let conn = estado.banco.lock()..?: the thread waits for the mutex, takes
\* it, and calls the function of services/backup.rs or db/queries.rs
Travar(t) ==
    /\ fios[t].fase = "chamado"
    /\ trava = "livre"
    /\ trava' = t
    /\ fios' = [fios EXCEPT ![t].fase = "dentro"]
    /\ LET c == fios[t].comando
       IN /\ zip' \in ArquivosDosComandos(c)
          /\ pasta_id' \in PastasDosComandos(c)
          /\ pcb' = IF c = "criar_backup" THEN "b_inicio" ELSE pcb
          /\ pc' = IF c = "restaurar_backup" THEN "inicio" ELSE pc
          /\ pce' = IF c = "exportar_pacote" THEN "e_inicio" ELSE pce
          /\ pci' = IF c = "importar_pacote" THEN "i_inicio" ELSE pci
          /\ zi' = IF c = "importar_pacote"
                   THEN [ZiParado EXCEPT !.u = PrimeiroId(t)] ELSE zi
          /\ inicial' = IF c = "restaurar_backup" THEN arquivos ELSE inicial
          /\ etapas' = IF c = "restaurar_backup" THEN <<"Idle">> ELSE etapas
          /\ avisos' = IF c = "restaurar_backup" THEN {} ELSE avisos
          /\ resultado' = IF c = "restaurar_backup" THEN "nenhum" ELSE resultado
          /\ motivo' = IF c = "restaurar_backup" THEN "" ELSE motivo
          /\ res_backup' = IF c = "restaurar_backup" THEN "nenhum" ELSE res_backup
          /\ manifesto' = IF c = "restaurar_backup" THEN ManifestoInvalido ELSE manifesto
          /\ conteudo_banco' = IF c = "restaurar_backup" THEN 0 ELSE conteudo_banco
          /\ i' = IF c = "restaurar_backup" THEN 1 ELSE i
    /\ UNCHANGED <<arquivos, zips, db, relogio, zw, j, pacotes, ze, origem,
                   chamadas>>

\* one step of the function the command called, the guard held
Passo(t) ==
    /\ fios[t].fase = "dentro"
    /\ \/ fios[t].comando = "criar_backup" /\ pc = "parado" /\ criar_backup
       \/ fios[t].comando = "restaurar_backup" /\ restaurar_backup
       \/ fios[t].comando = "exportar_pacote" /\ exportar_pacote_pasta
       \/ fios[t].comando = "importar_pacote" /\ importar_pacote

\* the command criar_pasta: queries::criar_pasta(&conn, &dados) for a folder
\* at the root, which inserts the row or fails
C_CriarPasta(t) ==
    /\ fios[t].fase = "dentro"
    /\ fios[t].comando = "criar_pasta"
    /\ fios[t].passo = 0
    /\ fios' = [fios EXCEPT ![t].passo = 1]
    /\ \/ db' = [db EXCEPT !.pastas = @ \cup
                    {Pasta(NovosIds[PrimeiroId(t)], "None", <<"b">>)}]
       \/ UNCHANGED db
    /\ UNCHANGED <<trava, zip, arquivos, zips, relogio, pc, manifesto,
                   conteudo_banco, i, pcb, zw, j, resultado, motivo, res_backup,
                   inicial, avisos, etapas, varsExportar, varsImportar, origem,
                   chamadas>>

\* the function the command of t called has returned
Terminou(t) ==
    LET c == fios[t].comando
    IN \/ c = "criar_backup" /\ pcb \in {"b_ok", "b_erro"}
       \/ c = "restaurar_backup" /\ pc = "fim"
       \/ c = "exportar_pacote" /\ pce \in {"e_ok", "e_erro"}
       \/ c = "importar_pacote" /\ pci \in {"i_ok", "i_erro"}
       \/ c = "criar_pasta" /\ fios[t].passo = 1

\* auditoria::registrar and the return of the command, where conn goes out
\* of scope and the mutex is released
Destravar(t) ==
    /\ fios[t].fase = "dentro"
    /\ Terminou(t)
    /\ trava' = IF trava = t THEN "livre" ELSE trava
    /\ fios' = [fios EXCEPT ![t].fase = "voltou"]
    /\ LET c == fios[t].comando
       IN /\ pcb' = IF c = "criar_backup" THEN "parado" ELSE pcb
          /\ pc' = IF c = "restaurar_backup" THEN "parado" ELSE pc
          /\ pce' = IF c = "exportar_pacote" THEN "parado" ELSE pce
          /\ pci' = IF c = "importar_pacote" THEN "parado" ELSE pci
    /\ UNCHANGED <<zip, arquivos, zips, db, relogio, manifesto, conteudo_banco,
                   i, zw, j, resultado, motivo, res_backup, inicial, avisos,
                   etapas, pasta_id, pacotes, ze, zi, origem, chamadas>>

\* the vault restaurar_backup is called on, no command invoked yet
InitComandos ==
    /\ zip = ArquivoIncompleto
    /\ arquivos = ArquivosIniciais
    /\ zips = <<>>
    /\ db = BancoInicial
    /\ relogio = 0
    /\ pc = "parado"
    /\ manifesto = ManifestoInvalido
    /\ conteudo_banco = 0
    /\ i = 1
    /\ pcb = "parado"
    /\ zw = ZwParado
    /\ j = 1
    /\ resultado = "nenhum"
    /\ motivo = ""
    /\ res_backup = "nenhum"
    /\ inicial = ArquivosIniciais
    /\ avisos = {}
    /\ etapas = <<"Idle">>
    /\ ExportarParado
    /\ ImportarParado
    /\ ComandosParados
    /\ origem = [arquivos |-> arquivos, db |-> db]
    /\ chamadas = 0

NextComandos ==
    \E t \in Fios :
        \/ \E c \in Comandos : Invocar(t, c)
        \/ Travar(t)
        \/ Passo(t)
        \/ C_CriarPasta(t)
        \/ Destravar(t)

SpecComandos == InitComandos /\ [][NextComandos]_vars

\* ------------------- export, then import or restore of the package
\* the claims about importing a package twice are about two calls
Importacoes == 2

\* a vault whose attachment files are all recorded
CofreSemOrfao(a, d) ==
    \E n \in 0..MaxAnexos : \E ni \in 0..Len(IdsItens) :
        \E dono \in [1..n -> {"tarefa"} \cup {IdsItens[m] : m \in 1..ni}] :
            \E disco \in [1..n -> 0..MaxByte] :
                LET c == Cofre(1, n, ni, dono, disco, FALSE)
                IN a = c.arquivos /\ d = c.db

\* one call of exportar_pacote_pasta for a folder of such a vault
InitPortar ==
    /\ CofreSemOrfao(arquivos, db)
    /\ inicial = arquivos
    /\ origem = [arquivos |-> arquivos, db |-> db]
    /\ chamadas = 0
    /\ zips = <<>>
    /\ relogio = 0
    /\ RestaurarParado
    /\ pcb = "parado"
    /\ zw = ZwParado
    /\ j = 1
    /\ pce = "e_inicio"
    /\ pasta_id \in {"p1", "p2"}
    /\ pacotes = <<>>
    /\ ze = ZeParado
    /\ ImportarParado
    /\ ComandosParados

\* the package the export wrote
PacoteEscrito == pacotes[CHOOSE n \in DOMAIN pacotes : TRUE]

\* The package of the export that returned Ok is imported, into the vault it
\* was exported from or into one that was just installed.
LevarParaImportar ==
    /\ pce = "e_ok"
    /\ pci = "parado"
    /\ pc = "parado"
    /\ chamadas = 0
    /\ zip' = PacoteEscrito
    /\ \/ UNCHANGED <<arquivos, db>>
       \/ arquivos' = [p \in {CaminhoBanco} |-> 1] /\ db' = BancoVazio
    /\ origem' = [arquivos |-> arquivos', db |-> db']
    /\ inicial' = arquivos'
    /\ pci' = "i_inicio"
    /\ chamadas' = 1
    /\ UNCHANGED <<zips, relogio, pc, manifesto, conteudo_banco, i, resultado,
                   motivo, res_backup, avisos, etapas, varsBackup, varsExportar,
                   zi, varsComandos>>

\* importar_pacote is called again on the same package once the call
\* before it has returned Ok
I_Chamar ==
    /\ pci = "i_ok"
    /\ chamadas < Importacoes
    /\ chamadas' = chamadas + 1
    /\ pci' = "i_inicio"
    /\ UNCHANGED <<arquivos, zips, db, relogio, varsRestaurar, varsBackup,
                   varsExportar, zi, varsComandos, origem>>

NextPortar ==
    \/ exportar_pacote_pasta
    \/ LevarParaImportar
    \/ importar_pacote
    \/ I_Chamar

SpecPortar == InitPortar /\ [][NextPortar]_vars

\* --------------------- backup or export, then restore of the archive
\* one call of criar_backup, or one of exportar_pacote_pasta
InitProduzir ==
    /\ CofreSemOrfao(arquivos, db)
    /\ inicial = arquivos
    /\ origem = [arquivos |-> arquivos, db |-> db]
    /\ chamadas = 0
    /\ zips = <<>>
    /\ relogio = 0
    /\ RestaurarParado
    /\ zw = ZwParado
    /\ j = 1
    /\ ze = ZeParado
    /\ pacotes = <<>>
    /\ ImportarParado
    /\ ComandosParados
    /\ \/ pcb = "b_inicio" /\ pce = "parado" /\ pasta_id = "None"
       \/ pcb = "parado" /\ pce = "e_inicio" /\ pasta_id \in {"p1", "p2"}

\* The archive of the backup or the package of the export that returned Ok
\* is taken out of its directory and handed to restaurar_backup, in the
\* vault it was made of.
LevarParaRestaurar ==
    /\ pc = "parado"
    /\ chamadas = 0
    /\ \/ /\ pcb = "b_ok"
          /\ zip' = zips[NomeBackup(relogio)]
          /\ zips' = <<>>
          /\ pcb' = "parado"
          /\ UNCHANGED <<pacotes, pce>>
       \/ /\ pce = "e_ok"
          /\ zip' = PacoteEscrito
          /\ pacotes' = <<>>
          /\ pce' = "parado"
          /\ UNCHANGED <<zips, pcb>>
    /\ pc' = "inicio"
    /\ chamadas' = 1
    /\ UNCHANGED <<arquivos, db, relogio, manifesto, conteudo_banco, i,
                   resultado, motivo, res_backup, inicial, avisos, etapas,
                   zw, j, pasta_id, ze, varsImportar, varsComandos, origem>>

NextProduzir ==
    \/ (pc = "parado" /\ criar_backup)
    \/ exportar_pacote_pasta
    \/ LevarParaRestaurar
    \/ restaurar_backup

SpecProduzir == InitProduzir /\ [][NextProduzir]_vars

\* ----------------------------------------------------------- properties
\* the errors of validation: opening the ZIP, the manifest, banco.sqlite
FalhasValidacao ==
    {"abrir_arquivo", "zip_invalido", "manifesto_ausente", "manifesto_leitura",
     "manifesto_invalido", "banco_ausente", "banco_leitura", "hash_banco"}

\* the attachment files of f, with their contents
AnexosDe(f) == [p \in AnexosVivos(f) |-> f[p]]

\* C1: whenever restaurar_backup returns a validation error, the live
\* database file and the live attachments tree are as they were when it
\* was called, and the database was never overwritten.
C1_ValidacaoAntesDeMutar ==
    (resultado = "erro" /\ motivo \in FalhasValidacao)
        => (arquivos = inicial /\ ~Passou("DatabaseReplaced"))

\* a validation error returned after the safety snapshot was attempted
C1_Testemunha ==
    /\ resultado = "erro"
    /\ motivo = "banco_ausente"
    /\ res_backup # "nenhum"

\* the archive's manifest parses and names a schema newer than the system's
VersaoFutura ==
    /\ zip.finalizado
    /\ TemEntrada(zip, NomeManifesto)
    /\ zip.manifesto.valido
    /\ zip.manifesto.versao_schema > versao_mais_recente

\* C2: a restore of an archive whose manifest names a schema version above
\* versao_mais_recente() ends in an error with the live files unchanged.
C2_PortaoDeVersao ==
    (pc = "fim" /\ VersaoFutura) => (resultado = "erro" /\ arquivos = inicial)

\* the digest of the archive's banco.sqlite is not the manifest's hash_banco
HashBancoDifere ==
    /\ zip.finalizado
    /\ TemEntrada(zip, NomeManifesto)
    /\ zip.manifesto.valido
    /\ TemEntrada(zip, NomeBanco)
    /\ calcular_hash_bytes(PorNome(zip, NomeBanco).dados) # zip.manifesto.hash_banco

\* C3: when the digest of banco.sqlite differs from manifesto.hash_banco,
\* the restore never succeeds, ends in an error, and the live database file
\* and attachments tree stay as they were before the call.
C3_IntegridadeDoBanco ==
    HashBancoDifere =>
        /\ arquivos = inicial
        /\ resultado # "ok"
        /\ (pc = "fim" => resultado = "erro")

\* the digest comparison itself rejected the archive, after a snapshot
C3_Testemunha ==
    /\ HashBancoDifere
    /\ motivo = "hash_banco"
    /\ res_backup = "ok"

\* the archive opens but its manifesto.json is missing or does not parse
ManifestoRuim ==
    /\ zip.finalizado
    /\ ~TemEntrada(zip, NomeManifesto) \/ ~zip.manifesto.valido

\* C4: until the manifest has been read and parsed nothing else is read
\* from the archive, no safety snapshot is started and no live file is
\* written; with a missing or unparsable manifest the restore never gets
\* past that point and ends in an error.
C4_ManifestoPrimeiro ==
    /\ ~Passou("ManifestValidated") =>
          /\ conteudo_banco = 0
          /\ i = 1
          /\ pcb = "parado"
          /\ res_backup = "nenhum"
          /\ DOMAIN zips = {}
          /\ arquivos = inicial
    /\ ManifestoRuim =>
          /\ ~Passou("ManifestValidated")
          /\ resultado # "ok"
          /\ (pc = "fim" => resultado = "erro")

\* an unparsable manifest made the restore fail
C4_Testemunha ==
    /\ ManifestoRuim
    /\ resultado = "erro"
    /\ motivo = "manifesto_invalido"

\* C5: restaurar_backup never returns an error caused by a step of the
\* automatic safety snapshot (creating backups_automaticos, criar_backup).
C5_SnapshotNuncaFatal ==
    resultado = "erro" => motivo # "dir_backups_auto"

\* z is a finished archive holding the database bytes and every attachment
\* file of f
SnapshotDe(z, f) ==
    /\ z.finalizado
    /\ TemEntrada(z, NomeBanco)
    /\ PorNome(z, NomeBanco).dados = f[CaminhoBanco]
    /\ \A p \in AnexosVivos(f) :
          \E k \in 1..Len(z.entradas) :
             /\ z.entradas[k].nome =
                   <<"anexos">> \o SubSeq(p, Len(obter_diretorio_armazenamento) + 1, Len(p))
             /\ z.entradas[k].dados = f[p]

\* C6: whenever restaurar_backup fails once the live database file has been
\* written to, backups_automaticos holds a finished snapshot of the
\* database bytes and attachments as they were before the restore.
C6_Recuperavel ==
    (resultado = "erro" /\ (Passou("DatabaseReplaced") \/ arquivos # inicial))
        => \E n \in DOMAIN zips : SnapshotDe(zips[n], inicial)

OrdemDasEtapas ==
    <<"Idle", "ManifestValidated", "SafetySnapshotTaken", "DatabaseReplaced",
      "AttachmentsReplaced", "Complete">>

\* C7: the stages restaurar_backup has gone through are always a prefix of
\* Idle, ManifestValidated, SafetySnapshotTaken, DatabaseReplaced,
\* AttachmentsReplaced, Complete, and all of them on success; no live file
\* is written before the safety snapshot attempt is over, and no
\* attachment file changes before the database has been overwritten.
C7_OrdemDasEtapas ==
    /\ Len(etapas) <= Len(OrdemDasEtapas)
    /\ etapas = SubSeq(OrdemDasEtapas, 1, Len(etapas))
    /\ resultado = "ok" => etapas = OrdemDasEtapas
    /\ (pcb # "parado" \/ res_backup = "nenhum") => arquivos = inicial
    /\ AnexosDe(arquivos) # AnexosDe(inicial) => Passou("DatabaseReplaced")

\* a restore that went through every stage
C7_Testemunha ==
    /\ resultado = "ok"
    /\ etapas = OrdemDasEtapas
    /\ AnexosDe(arquivos) # AnexosDe(inicial)

\* the indices of the archive's entries that are attachment files
AnexosDoZip == {k \in 1..Len(zip.entradas) : EhAnexo(zip.entradas[k])}

\* C8: after a successful restore the files under storage/anexos are
\* exactly the archive's attachment entries, each at its relative path with
\* its bytes, and vaultcraft.db holds the bytes of banco.sqlite.
C8_SubstituicaoCompleta ==
    resultado = "ok" =>
        /\ AnexosVivos(arquivos) =
              {obter_diretorio_armazenamento \o CaminhoRelativo(zip.entradas[k])
                  : k \in AnexosDoZip}
        /\ \A k \in AnexosDoZip :
              arquivos[obter_diretorio_armazenamento \o CaminhoRelativo(zip.entradas[k])]
                  = zip.entradas[k].dados
        /\ arquivos[CaminhoBanco] = PorNome(zip, NomeBanco).dados

\* the attachment entries the extraction loop is done with
Processadas == {k \in AnexosDoZip : k < i}

\* where the loop writes the k-th entry
Destino(k) == Juntar(obter_diretorio_armazenamento, CaminhoRelativo(zip.entradas[k]))

\* the manifest records for the k-th entry a digest that is not its own
Difere(k) ==
    /\ CaminhoRelativo(zip.entradas[k]) \in DOMAIN manifesto.hashes_anexos
    /\ manifesto.hashes_anexos[CaminhoRelativo(zip.entradas[k])]
          # calcular_hash_bytes(zip.entradas[k].dados)

\* the errors restaurar_backup returns once the database has been replaced
FalhasDeES ==
    {"limpar_anexos", "recriar_anexos", "entrada_zip", "criar_dir_anexo",
     "ler_anexo", "escrever_anexo"}

\* C9: every attachment entry the loop is done with, whether or not its
\* digest matches the manifest, has its bytes at its destination, and a
\* mismatch is logged; a successful restore has gone through every entry;
\* and after the database was replaced the restore fails only on I/O,
\* never on a digest.
C9_ToleranciaDeAnexo ==
    /\ \A k \in Processadas :
          /\ Destino(k) \in DOMAIN arquivos
          /\ arquivos[Destino(k)] = zip.entradas[k].dados
          /\ Difere(k) => CaminhoRelativo(zip.entradas[k]) \in avisos
    /\ resultado = "ok" => i = Len(zip.entradas) + 1
    /\ (resultado = "erro" /\ Passou("DatabaseReplaced")) => motivo \in FalhasDeES

\* a successful restore that wrote an entry with a wrong digest and an
\* entry after it
C9_Testemunha ==
    /\ resultado = "ok"
    /\ \E k \in Processadas :
          /\ Difere(k)
          /\ arquivos[Destino(k)] = zip.entradas[k].dados
          /\ \E m \in Processadas : m > k

\* the I/O errors of a single attachment
FalhasDeUmAnexo == {"criar_dir_anexo", "ler_anexo", "escrever_anexo"}

\* C10: restaurar_backup never returns the I/O error of a single
\* attachment: the attachment is skipped and the restore goes on.
C10_FalhaDeAnexoNaoAborta ==
    resultado = "erro" => motivo \notin FalhasDeUmAnexo

\* the paths the manifest lists a digest for although the archive has no
\* entry anexos/<path>
AnexosAusentes ==
    {r \in DOMAIN manifesto.hashes_anexos : ~TemEntrada(zip, <<"anexos">> \o r)}

\* every error restaurar_backup returns: validation, the snapshot
\* directory, and the I/O of replacing the database and the attachments
FalhasConhecidas ==
    FalhasValidacao \cup FalhasDeES \cup {"escrever_banco", "dir_backups_auto"}

\* C11: a path the manifest lists without an entry in the archive never
\* makes restaurar_backup fail: every error it returns is one of validation
\* or I/O, a restore that has gone through all the entries succeeds, and
\* after a successful restore that path is not in the live attachments tree.
C11_AnexoAusenteTolerado ==
    /\ resultado = "erro" => motivo \in FalhasConhecidas
    /\ (pc = "fim" /\ Passou("DatabaseReplaced") /\ i > Len(zip.entradas))
          => resultado = "ok"
    /\ resultado = "ok" =>
          \A r \in AnexosAusentes :
             Juntar(obter_diretorio_armazenamento, r) \notin DOMAIN arquivos

\* a restore that succeeded although the manifest lists a path the archive
\* does not hold, and that extracted another attachment
C11_Testemunha ==
    /\ resultado = "ok"
    /\ AnexosAusentes # {}
    /\ Processadas # {}

\* the attachment whose caminho_interno is c has its file on disk
NoDisco(c) == Juntar(obter_diretorio_armazenamento, c) \in DOMAIN arquivos

\* among the entries es and the digests hs, the attachment c is archived
Arquivado(es, hs, c) ==
    /\ \E k \in 1..Len(es) :
          /\ es[k].nome = <<"anexos">> \o c
          /\ es[k].dados = arquivos[Juntar(obter_diretorio_armazenamento, c)]
    /\ c \in DOMAIN hs

\* among the entries es and the digests hs there is nothing of c
Ignorado(es, hs, c) ==
    /\ \A k \in 1..Len(es) : es[k].nome # <<"anexos">> \o c
    /\ c \notin DOMAIN hs

\* the archive criar_backup was asked to write
ArquivoDoBackup == zips[NomeBackup(relogio)]

\* the rows of anexos and what became of each in es and hs
SoOsDoDisco(es, hs, K) ==
    \A k \in K :
        IF NoDisco(db.caminhos[k])
        THEN Arquivado(es, hs, db.caminhos[k])
        ELSE Ignorado(es, hs, db.caminhos[k])

\* the loop of criar_backup is at a row whose file is gone from disk
DianteDeAusente ==
    /\ pcb = "b_anexo"
    /\ j <= Len(db.caminhos)
    /\ ~NoDisco(db.caminhos[j])

\* C12: in criar_backup a row of anexos whose file is not on disk is passed
\* over without an error, leaving no entry and no digest, while every row
\* whose file is on disk gets its entry and its digest, during the loop
\* and in the archive of a backup that returned Ok.
C12_AusenteNoDiscoIgnorado ==
    /\ [](/\ pcb \in {"b_anexo", "b_manifesto", "b_finish"} =>
               SoOsDoDisco(zw.entradas, zw.hashes,
                           {k \in 1..Len(db.caminhos) : k < j})
          /\ pcb = "b_ok" =>
               SoOsDoDisco(ArquivoDoBackup.entradas,
                           ArquivoDoBackup.manifesto.hashes_anexos,
                           1..Len(db.caminhos)))
    /\ [][DianteDeAusente => (pcb' = "b_anexo" /\ j' = j + 1 /\ zw' = zw)]_vars

\* a backup that returned Ok after passing over a row whose file is gone
\* and archiving a later row
C12_Testemunha ==
    /\ pcb = "b_ok"
    /\ \E k \in 1..Len(db.caminhos) :
          /\ ~NoDisco(db.caminhos[k])
          /\ \E m \in 1..Len(db.caminhos) :
                /\ m > k
                /\ Arquivado(ArquivoDoBackup.entradas,
                             ArquivoDoBackup.manifesto.hashes_anexos,
                             db.caminhos[m])

\* the indices of the entries of es under anexos/
SobAnexos(es) == {k \in 1..Len(es) : Head(es[k].nome) = "anexos"}

\* the entries of es under anexos/ are the keys of hs, and hs holds for
\* each the digest of the bytes of the entry
ManifestoConfere(es, hs) ==
    /\ {Tail(es[k].nome) : k \in SobAnexos(es)} = DOMAIN hs
    /\ \A k \in SobAnexos(es) :
          hs[Tail(es[k].nome)] = calcular_hash_bytes(es[k].dados)

\* the archive exportar_pacote_pasta was asked to write
PacoteExportado ==
    pacotes[NomePacote(obter_pasta_por_id(db, pasta_id).nome, relogio)]

\* C13: in every archive criar_backup or exportar_pacote_pasta finished,
\* and in the writer of each while it runs, the entries anexos/<path> are
\* exactly the keys of hashes_anexos and each digest is that of the bytes
\* written to the entry.
C13_InvarianteDoManifesto ==
    /\ pcb \in {"b_anexo", "b_manifesto", "b_finish"} =>
          ManifestoConfere(zw.entradas, zw.hashes)
    /\ pce \in {"e_anexo", "e_finish"} =>
          ManifestoConfere(ze.entradas, ze.hashes)
    /\ pcb = "b_finish" => zw.manifesto.hashes_anexos = zw.hashes
    /\ pce = "e_finish" => ze.manifesto.hashes_anexos = ze.hashes
    /\ \A n \in DOMAIN zips :
          zips[n].finalizado =>
             ManifestoConfere(zips[n].entradas, zips[n].manifesto.hashes_anexos)
    /\ \A n \in DOMAIN pacotes :
          pacotes[n].finalizado =>
             ManifestoConfere(pacotes[n].entradas,
                              pacotes[n].manifesto.hashes_anexos)

\* an export that finished a package of two attachments of different bytes
C13_Testemunha ==
    /\ pce = "e_ok"
    /\ PacoteExportado.finalizado
    /\ \E k, m \in SobAnexos(PacoteExportado.entradas) :
          PacoteExportado.entradas[k].dados # PacoteExportado.entradas[m].dados

\* manifesto.json is not among the entries es
SemManifesto(es) == \A k \in 1..Len(es) : es[k].nome # NomeManifesto

\* the entries es start with the primary data, named primario, and end
\* with manifesto.json, and hold each of the two once
ManifestoPorUltimo(es, primario) ==
    /\ Len(es) >= 2
    /\ {k \in 1..Len(es) : es[k].nome = NomeManifesto} = {Len(es)}
    /\ {k \in 1..Len(es) : es[k].nome = primario} = {1}

\* C14: manifesto.json is written once, after the primary data and after
\* every attachment: a writer holds it only when all that is left is
\* finish(), where it is the last entry, and so it is the last entry of
\* every archive criar_backup or exportar_pacote_pasta finished.
C14_ManifestoPorUltimo ==
    /\ pcb \in {"b_criar", "b_banco", "b_listar", "b_anexo", "b_manifesto"}
          => SemManifesto(zw.entradas)
    /\ pcb = "b_finish" => ManifestoPorUltimo(zw.entradas, NomeBanco)
    /\ pce \in {"e_criar", "e_listar", "e_dados", "e_anexo"}
          => SemManifesto(ze.entradas)
    /\ pce = "e_finish" => ManifestoPorUltimo(ze.entradas, NomeDados)
    /\ \A n \in DOMAIN zips :
          zips[n].finalizado => ManifestoPorUltimo(zips[n].entradas, NomeBanco)
    /\ \A n \in DOMAIN pacotes :
          (pacotes[n].finalizado /\ pacotes[n] # PacoteAntigo)
              => ManifestoPorUltimo(pacotes[n].entradas, NomeDados)

\* a backup that finished an archive of the database, two attachments and
\* the manifest
C14_Testemunha ==
    /\ pcb = "b_ok"
    /\ ArquivoDoBackup.finalizado
    /\ Len(ArquivoDoBackup.entradas) >= 4
    /\ ArquivoDoBackup.entradas[Len(ArquivoDoBackup.entradas)].nome = NomeManifesto

\* C15: the archive appears under its final name only once finish() has
\* succeeded: no file of that name is ever unfinished, and after a
\* criar_backup that returned an error there is no file of that name.
C15_AtomicoNoCaminhoFinal ==
    /\ \A n \in DOMAIN zips : zips[n].finalizado
    /\ pcb = "b_erro" => NomeBackup(relogio) \notin DOMAIN zips

\* exportar_pacote_pasta was called for a folder the database does not have
PastaInexistente == pce # "parado" /\ ~TemPasta(db, pasta_id)

\* C19: exportar_pacote_pasta called for a folder that does not exist gets
\* no further than the lookup of the folder, where it fails, and no file of
\* the destination directory or of the vault is created or changed.
C19_PastaInexistente ==
    /\ [](PastaInexistente => pce \in {"e_inicio", "e_erro"})
    /\ [][PastaInexistente =>
             (pacotes' = pacotes /\ arquivos' = arquivos /\ zips' = zips)]_vars

\* the export of a folder that does not exist failed, in a directory that
\* holds an older package
C19_Testemunha ==
    /\ PastaInexistente
    /\ pce = "e_erro"
    /\ pacotes # <<>>

\* the attachment files of f that a row of anexos of the database d names
AnexosDoBanco(f, d) ==
    [p \in {q \in AnexosVivos(f) :
              \E k \in 1..Len(d.caminhos) :
                 q = Juntar(obter_diretorio_armazenamento, d.caminhos[k])} |-> f[p]]

\* C16 as stated: after criar_backup and a restaurar_backup of its archive
\* into a new vault, the database file holds the bytes of the original
\* and the attachments tree is that of the original vault, path by path
\* and byte by byte.
C16_IdaEVolta ==
    resultado = "ok" =>
        /\ arquivos[CaminhoBanco] = origem.arquivos[CaminhoBanco]
        /\ AnexosDe(arquivos) = AnexosDe(origem.arquivos)

\* the original vault holds an attachment file that no row of anexos names
TemOrfao ==
    AnexosDoBanco(origem.arquivos, origem.db) # AnexosDe(origem.arquivos)

\* C16, amended: after criar_backup and a restaurar_backup of its archive
\* into a new vault, both returning Ok, the database file holds the bytes
\* of the original and the attachments tree holds, path by path and byte by
\* byte, the original attachment files that a row of anexos names, and no
\* other file.
C16_IdaEVoltaDoBanco ==
    resultado = "ok" =>
        /\ arquivos[CaminhoBanco] = origem.arquivos[CaminhoBanco]
        /\ AnexosDe(arquivos) = AnexosDoBanco(origem.arquivos, origem.db)

\* a round trip of a vault with an attachment file that came back, a row
\* whose file is gone and a file that no row names
C16_Testemunha ==
    /\ resultado = "ok"
    /\ TemOrfao
    /\ AnexosDe(arquivos) # <<>>
    /\ \E k \in 1..Len(origem.db.caminhos) :
          Juntar(obter_diretorio_armazenamento, origem.db.caminhos[k])
              \notin DOMAIN origem.arquivos

\* C17: a finished snapshot in backups_automaticos stays there, as it is,
\* through every step of every later operation.
C17_SnapshotsNuncaPodados ==
    [][\A n \in DOMAIN zips :
          zips[n].finalizado => (n \in DOMAIN zips' /\ zips'[n] = zips[n])]_vars

\* ------------------------------------------------------------------ C20
\* the manifest of the package is missing, unparsable, or of a schema
\* later than the latest this build knows
ManifestoRecusavel(z) ==
    \/ ~TemEntrada(z, NomeManifesto)
    \/ ~z.manifesto.valido
    \/ z.manifesto.versao_schema > versao_mais_recente

\* importar_pacote has created nothing: no file, no row of any table
NadaCriado == arquivos = origem.arquivos /\ db = origem.db

\* C20: when the manifest of the package is missing, unparsable or of a
\* later schema, importar_pacote does not return Ok and, at every step of
\* it, no folder, item, attachment row or attachment file has been created.
C20_ManifestoValidadoAntes ==
    (pci # "parado" /\ ManifestoRecusavel(zip)) => (pci # "i_ok" /\ NadaCriado)

\* ------------------------------------------------------------------ C18
\* the thread t is between the lock() of its command and its return
NoComando(t) == fios[t].fase = "dentro"

\* the thread t is inside one of the four backup and package commands
EmOperacao(t) == NoComando(t) /\ fios[t].comando \in Operacoes

\* a thread inside a command holds the mutex
SoQuemTrava == \A t \in Fios : NoComando(t) => trava = t

\* a step taken while t stays inside its operation is no step of another
\* command: no other thread enters or advances, and the positions of the
\* functions t did not call stay where they are
SemPassoAlheio ==
    \A t \in Fios :
        (EmOperacao(t) /\ EmOperacao(t)') =>
            /\ \A u \in Fios \ {t} :
                   ~NoComando(u)' /\ fios'[u].passo = fios[u].passo
            /\ fios[t].comando \notin {"criar_backup", "restaurar_backup"} => pcb' = pcb
            /\ fios[t].comando # "restaurar_backup" => pc' = pc
            /\ fios[t].comando # "exportar_pacote" => pce' = pce
            /\ fios[t].comando # "importar_pacote" => pci' = pci

\* C18: each of the commands criar_backup, restaurar_backup, exportar_pacote
\* and importar_pacote holds the mutex EstadoApp.banco from before its first
\* step until after its last, so under any interleaving of invocations on
\* different threads no other command that uses the database takes a step
\* while one of them is running.
C18_EscritorUnico == [](SoQuemTrava) /\ [][SemPassoAlheio]_vars

\* a restore is extracting while the command criar_pasta, invoked on the
\* other thread, waits for the mutex
C18_Testemunha ==
    \E t \in Fios : \E u \in Fios \ {t} :
        /\ EmOperacao(t)
        /\ fios[t].comando = "restaurar_backup"
        /\ pc = "extrair"
        /\ fios[u].fase = "chamado"
        /\ fios[u].comando = "criar_pasta"

\* ------------------------------------------------------------------ C21
\* the rows of pastas and of itens that importar_pacote has inserted
PastasNovas == db.pastas \ origem.db.pastas

ItensNovos == SubSeq(db.itens, Len(origem.db.itens) + 1, Len(db.itens))

\* the ids of the folders and items the vault had before the call
IdsDeAntes ==
    {p.id : p \in origem.db.pastas}
        \cup {origem.db.itens[m].id : m \in 1..Len(origem.db.itens)}

CaminhosNovos ==
    SubSeq(db.caminhos, Len(origem.db.caminhos) + 1, Len(db.caminhos))

\* the elements of a sequence
Elementos(q) == {q[k] : k \in 1..Len(q)}

\* no element occurs twice in the sequence
SemRepetir(q) == Cardinality(Elementos(q)) = Len(q)

\* the ids the package records: of the folder, of its items, and of the
\* attachments, which lead their caminho_interno
IdsDoPacote(d) ==
    {d.pasta.id} \cup {d.itens[m].id : m \in 1..Len(d.itens)}
        \cup {c[1] : c \in Elementos(AnexosDosItens(d.itens))}

\* the ids in use in the vault before the first import
IdsDoCofre ==
    IdsDeAntes \cup {c[1] : c \in Elementos(origem.db.caminhos)}

\* the ids of the rows the imports have inserted, one per row
IdsCriados ==
    [m \in 1..Len(ItensNovos) |-> ItensNovos[m].id]
        \o [m \in 1..Len(CaminhosNovos) |-> CaminhosNovos[m][1]]

\* C22: importing one package twice gives two destination folders, and the
\* ids of the folders, items and attachments and the caminho_interno the
\* imports create are pairwise distinct, distinct from those the package
\* records and from those of every record the vault already had.
C22_IdentidadesNovas ==
    (pci # "parado" /\ TemEntrada(zip, NomeDados)) =>
        LET usados == IdsDoPacote(PorNome(zip, NomeDados).dados) \cup IdsDoCofre
        IN /\ SemRepetir(IdsCriados)
           /\ Elementos(IdsCriados) \cap {p.id : p \in PastasNovas} = {}
           /\ (Elementos(IdsCriados) \cup {p.id : p \in PastasNovas}) \cap usados = {}
           /\ SemRepetir(CaminhosNovos)
           /\ Elementos(CaminhosNovos) \cap
                  (Elementos(origem.db.caminhos) \cup
                   Elementos(AnexosDosItens(PorNome(zip, NomeDados).dados.itens))) = {}
           /\ (chamadas = Importacoes /\ pci = "i_ok") =>
                  /\ Cardinality(PastasNovas) = Importacoes
                  /\ Cardinality({p.id : p \in PastasNovas}) = Importacoes

\* the second import into the vault the package was exported from has
\* returned Ok, and each import created an item with an attachment
C22_Testemunha ==
    /\ chamadas = Importacoes
    /\ pci = "i_ok"
    /\ origem.db.pastas # {}
    /\ Len(ItensNovos) = Importacoes
    /\ Len(CaminhosNovos) >= Importacoes

\* ------------------------------------------------------------------ C23
\* the attachments the item_json records whose entry the archive has
ComEntrada(anexos) ==
    SelectSeq(anexos, LAMBDA c : c # <<>> /\ TemEntrada(zip, <<"anexos">> \o c))

\* the attachment importar_pacote is at has no entry in the archive
AnexoSemEntrada ==
    /\ pci = "i_anexo"
    /\ zi.a <= Len(zi.dados.itens[zi.k].anexos)
    /\ ~TemEntrada(zip, <<"anexos">> \o zi.dados.itens[zi.k].anexos[zi.a])

\* the attachment without entry is passed over: no error, nothing written
PassaAdiante ==
    AnexoSemEntrada =>
        /\ pci' = "i_anexo"
        /\ zi' = [zi EXCEPT !.a = @ + 1]
        /\ db' = db
        /\ arquivos' = arquivos

\* the import returned Ok: every item of dados.json was created, each with
\* the attachments whose entries the archive has, under their names
TudoQueHavia ==
    pci = "i_ok" =>
        LET itens == PorNome(zip, NomeDados).dados.itens
        IN /\ Len(ItensNovos) = Len(itens)
           /\ \A m \in 1..Len(itens) :
                  LET havia == ComEntrada(itens[m].anexos)
                      feitos == ItensNovos[m].anexos
                  IN /\ Len(feitos) = Len(havia)
                     /\ \A x \in 1..Len(havia) :
                            Tail(feitos[x]) = nome_original(havia[x])

\* C23: an attachment that an item of dados.json records but whose entry
\* anexos/<caminho_interno> the archive lacks is skipped, alone: the step
\* goes on to the next attachment without error, and an import that returns
\* Ok has created every item with all its attachments that have an entry.
C23_AnexoAusentePulado == [](TudoQueHavia) /\ [][PassaAdiante]_vars

\* the import returned Ok for a package whose first item records two
\* attachments, of which the archive has one
C23_Testemunha ==
    /\ pci = "i_ok"
    /\ ItensNovos # <<>>
    /\ Len(PorNome(zip, NomeDados).dados.itens[1].anexos) = 2
    /\ Len(ItensNovos[1].anexos) = 1

\* ------------------------------------------------------------------ C24
\* C24: importar_pacote of a package exportar_pacote_pasta produced creates
\* the destination folder in any vault, one without the parent of the
\* exported folder included: it returns Err only when reading the archive,
\* writing a file or the database fails, and once past criar_pasta the new
\* folder is there.
C24_PacotePortatil ==
    /\ pci = "i_erro" => zi.erro = "es"
    /\ pci \in {"i_item", "i_anexo", "i_ok"} => PastasNovas # {}

\* ------------------------------------------------------------------ C25
\* the rows of itens whose pasta_id is id
ItensDaPasta(id) ==
    {db.itens[m] : m \in {x \in 1..Len(db.itens) : db.itens[x].pasta_id = id}}

HashDoBancoConfere(z) ==
    /\ TemEntrada(z, NomeBanco)
    /\ z.manifesto.hash_banco = calcular_hash_bytes(PorNome(z, NomeBanco).dados)

\* C26: in every archive criar_backup finished, manifesto.hash_banco is the
\* SHA-256 of the bytes of the entry banco.sqlite, so restaurar_backup of
\* such an archive, unmodified, never fails the digest check of the database.
C26_HashDoBanco ==
    /\ \A n \in DOMAIN zips : zips[n].finalizado => HashDoBancoConfere(zips[n])
    /\ pc # "parado" => HashDoBancoConfere(zip) /\ motivo # "hash_banco"

\* the restore of the archive of a backup has passed the digest check
C26_Testemunha ==
    /\ chamadas = 1
    /\ pc = "escrever_banco"
    /\ calcular_hash_bytes(conteudo_banco) = manifesto.hash_banco

\* ------------------------------------------------------------------ C27
\* the files a step created or changed
Tocados ==
    {p \in DOMAIN arquivos' : p \notin DOMAIN arquivos \/ arquivos'[p] # arquivos[p]}

\* C27: whatever the names of the entries under anexos/, every file a step
\* of the extraction loop of restaurar_backup creates or overwrites lies
\* inside storage/anexos, and no archive of backups_automaticos is touched.
C27_ExtracaoContida ==
    [][pc = "extrair" =>
          /\ \A p \in Tocados : Dentro(obter_diretorio_armazenamento, p)
          /\ zips' = zips]_vars

\* ------------------------------------------------------------------ C28
\* restaurar_backup was handed a folder package: manifesto.json with an
\* empty hash_banco, dados.json, and no banco.sqlite
RestaurandoPacote ==
    /\ pc # "parado"
    /\ TemEntrada(zip, NomeManifesto)
    /\ zip.manifesto.hash_banco = HashVazio
    /\ TemEntrada(zip, NomeDados)
    /\ ~TemEntrada(zip, NomeBanco)

\* C28: restaurar_backup of a folder package returns Err, after the attempt
\* at the safety snapshot unless reading the archive failed before it, and
\* leaves the database file and the files of the attachments as they were.
C28_PacoteNaoRestaura ==
    RestaurandoPacote =>
        /\ arquivos = origem.arquivos
        /\ db = origem.db
        /\ pc \notin {"hash", "escrever_banco", "limpar", "recriar", "extrair"}
        /\ pc = "fim" => resultado = "erro"
        /\ (pc = "fim" /\ Passou("SafetySnapshotTaken")) => motivo = "banco_ausente"
        /\ motivo = "banco_ausente" => Passou("SafetySnapshotTaken")

\* the restore of a package has failed for want of banco.sqlite, the safety
\* snapshot taken
C28_Testemunha ==
    /\ RestaurandoPacote
    /\ pc = "fim"
    /\ motivo = "banco_ausente"
    /\ res_backup = "ok"
    /\ DOMAIN zips # {}

\* ------------------------------------------------------------------ C29
\* the archives of the directory f that a step created or changed
ArquivosTocados(f, g) ==
    {n \in DOMAIN g : n \notin DOMAIN f \/ g[n] # f[n]} \cup (DOMAIN f \ DOMAIN g)

\* a step of criar_backup or of exportar_pacote_pasta touches no file but
\* the archive it writes
SoOArquivo ==
    /\ arquivos' = arquivos
    /\ pcb # "parado" =>
          /\ ArquivosTocados(zips, zips') \subseteq {NomeBackup(relogio)}
          /\ pacotes' = pacotes
    /\ (pce # "parado" /\ TemPasta(db, pasta_id)) =>
          /\ ArquivosTocados(pacotes, pacotes') \subseteq
                 {NomePacote(obter_pasta_por_id(db, pasta_id).nome, relogio)}
          /\ zips' = zips
    /\ (pce # "parado" /\ ~TemPasta(db, pasta_id)) =>
          pacotes' = pacotes /\ zips' = zips

\* C29: criar_backup and exportar_pacote_pasta, whether they return Ok or
\* Err, leave the database file and every file under storage/anexos as they
\* were; the one file they create or change is the archive in the
\* destination directory.
C29_SoLeitura ==
    [](arquivos = origem.arquivos /\ db = origem.db) /\ [][SoOArquivo]_vars

\* a backup of a vault with attachments on disk has returned, Ok or Err,
\* after the archive was created
C29_Testemunha ==
    /\ pcb \in {"b_ok", "b_erro"}
    /\ DOMAIN zips # {}
    /\ AnexosDe(arquivos) # <<>>

\* ------------------------------------------------------------------ C30
\* q begins with p
Prefixo(p, q) == Len(p) <= Len(q) /\ SubSeq(q, 1, Len(p)) = p

\* a step of importar_pacote, the failing one included, takes back nothing:
\* the folders, the items with their attachments, the attachment rows and
\* the files that were there stay
NadaDesfeito ==
    /\ db.pastas \subseteq db'.pastas
    /\ Len(db.itens) <= Len(db'.itens)
    /\ \A m \in 1..Len(db.itens) :
          /\ db'.itens[m].id = db.itens[m].id
          /\ db'.itens[m].pasta_id = db.itens[m].pasta_id
          /\ Prefixo(db.itens[m].anexos, db'.itens[m].anexos)
    /\ Prefixo(db.caminhos, db'.caminhos)
    /\ DOMAIN arquivos \subseteq DOMAIN arquivos'

\* C30: importar_pacote does not roll back: when it fails midway, the folder,
\* the items, the attachment files and the attachment rows created before
\* the failure stay in the vault.
C30_SemRollback == [][NadaDesfeito]_vars

\* an import failed after it created the folder, an item and a file of an
\* attachment
C30_Testemunha ==
    /\ pci = "i_erro"
    /\ PastasNovas # {}
    /\ ItensNovos # <<>>
    /\ DOMAIN arquivos # DOMAIN origem.arquivos
====
